---- MODULE Spec2Model ----
(***************************************************************************)
(* Verification model of the novel ingestion and integrity-verification    *)
(* pipeline of novel-author-agent: the Chinese numeral parser, the chapter *)
(* segmenter with its aggregate statistics, the statistical completeness   *)
(* checker and the verifier that fuses it with the LLM oracle.             *)
(*                                                                         *)
(* Text is a sequence of characters.  A character is a short ASCII token:  *)
(* ASCII characters stand for themselves, CJK characters are written in    *)
(* pinyin ("di" is U+7B2C, "zhang" is U+7AE0, "ling" is U+96F6 ...).       *)
(***************************************************************************)
EXTENDS Integers, Sequences, FiniteSets, TLC

VARIABLES
    \* chineseToNumber(str)
    numStr, numPc, numI, numResult, numTemp, numUnit, numRet,
    \* parseNovel(filePath, options) and the splitChapters loop inside it
    segContent, segOpts, segPc, lines, lineIdx, chapters, currentChapter,
    currentContent, chapterCount, novelData,
    \* checkNovelIntegrity(bookInfo, useLLM): the novel file, the arguments,
    \* the position in the function, its locals (result is what sendMessage
    \* resolved to), the value it returns and the number of requests sent to
    \* the oracle
    file, bookInfo, useLLM, pc, scriptCheck, result, llmCheck, verdict,
    oracleRequests,
    \* what saveNovelMeta wrote to the meta file of the novel
    meta,
    \* the declared word count check of checkIntegrityByScript: the string
    \* bookInfo.wordCount, novelData.totalWords, the position, what
    \* parseWordCount returned (expectedWords) and the issues pushed
    wcStr, wcTotalWords, wcPc, wcExpected, wcIssues,
    \* detectEncoding(buffer): the buffer, the position, the loop index, the
    \* two scores and the value returned
    buffer, encPc, encI, gbkScore, utf8Score, detectedEncoding,
    \* parseChapterTitle(line): the line, the position, the trimmed line, the
    \* index of the pattern under test, what isChapterTitle returned, the
    \* number extracted and the value returned
    ttlLine, ttlPc, ttlTrimmed, ttlPattern, ttlIsTitle, ttlNumber, ttlRet,
    \* saveChapterSplits(seqOrDirName, novelData): the files of the chapters
    \* directory and the value returned
    chapterFiles, saveRet,
    \* the workspace manager: the index file, the workspace directories with
    \* their meta files, the clock, the position inside deleteWorkspace with
    \* its argument and dirName, and the last call made
    wsIndexFile, wsDirs, wsClock, wsPc, wsArg, wsDirName, wsLast,
    \* the novel manager run by two callers: the index file, the novel
    \* directories with their meta files, and for each caller the position
    \* inside its call and the locals of the call (the index it read, seq,
    \* title)
    nvIndexFile, nvDirs, nvPc, nvLocal

numVars == <<numStr, numPc, numI, numResult, numTemp, numUnit, numRet>>
segVars == <<segContent, segOpts, segPc, lines, lineIdx, chapters,
             currentChapter, currentContent, chapterCount, novelData>>

chkVars == <<file, bookInfo, useLLM, pc, scriptCheck, result, llmCheck,
             verdict, oracleRequests, meta>>

wcVars == <<wcStr, wcTotalWords, wcPc, wcExpected, wcIssues>>

encVars == <<buffer, encPc, encI, gbkScore, utf8Score, detectedEncoding>>

ttlVars == <<ttlLine, ttlPc, ttlTrimmed, ttlPattern, ttlIsTitle, ttlNumber,
             ttlRet>>

savVars == <<chapterFiles, saveRet>>

wsVars == <<wsIndexFile, wsDirs, wsClock, wsPc, wsArg, wsDirName, wsLast>>

nvVars == <<nvIndexFile, nvDirs, nvPc, nvLocal>>

vars == <<numVars, segVars, chkVars, wcVars, encVars, ttlVars, savVars, wsVars, nvVars>>

\* the variables of the other components
notNum == <<segVars, chkVars, wcVars, encVars, ttlVars, savVars, wsVars, nvVars>>
notSeg == <<numVars, chkVars, wcVars, encVars, ttlVars, savVars, wsVars, nvVars>>
notChk == <<numVars, segVars, wcVars, encVars, ttlVars, savVars, wsVars, nvVars>>
notWc == <<numVars, segVars, chkVars, encVars, ttlVars, savVars, wsVars, nvVars>>
notEnc == <<numVars, segVars, chkVars, wcVars, ttlVars, savVars, wsVars, nvVars>>
notTtl == <<numVars, segVars, chkVars, wcVars, encVars, savVars, wsVars, nvVars>>
\* the other components, seen from parseNovel followed by saveChapterSplits
notSegSav == <<numVars, chkVars, wcVars, encVars, ttlVars, wsVars, nvVars>>
notWs == <<numVars, segVars, chkVars, wcVars, encVars, ttlVars, savVars, nvVars>>
notNv == <<numVars, segVars, chkVars, wcVars, encVars, ttlVars, savVars, wsVars>>

(***************************************************************************)
(* Characters                                                              *)
(***************************************************************************)
AsciiDigits == {"0", "1", "2", "3", "4", "5", "6", "7", "8", "9"}

DigitVal(c) ==
    CASE c = "0" -> 0 [] c = "1" -> 1 [] c = "2" -> 2 [] c = "3" -> 3
      [] c = "4" -> 4 [] c = "5" -> 5 [] c = "6" -> 6 [] c = "7" -> 7
      [] c = "8" -> 8 [] c = "9" -> 9

\* JavaScript \s restricted to the characters of the model: space, newline.
Whitespace == {" ", "\n"}

\* the chineseNums table; characters outside it map to undefined
ChineseNumChars ==
    {"ling", "yi", "er", "san", "si", "wu", "liu", "qi", "ba", "jiu",
     "shi", "bai", "qian", "wan"}

chineseNums(c) ==
    CASE c = "ling" -> 0 [] c = "yi" -> 1 [] c = "er" -> 2 [] c = "san" -> 3
      [] c = "si" -> 4 [] c = "wu" -> 5 [] c = "liu" -> 6 [] c = "qi" -> 7
      [] c = "ba" -> 8 [] c = "jiu" -> 9 [] c = "shi" -> 10
      [] c = "bai" -> 100 [] c = "qian" -> 1000 [] c = "wan" -> 10000

(***************************************************************************)
(* Sequence helpers                                                        *)
(***************************************************************************)
SetMin(S) == CHOOSE m \in S : \A n \in S : m <= n
SetMax(S) == CHOOSE m \in S : \A n \in S : m >= n

\* all sequences over S of length 0..n
SeqsUpTo(S, n) == UNION {[1..k -> S] : k \in 0..n}

\* /^\d+$/
IsPureDigits(s) == Len(s) > 0 /\ \A i \in 1..Len(s) : s[i] \in AsciiDigits

\* value of a run of ASCII digits in radix 10
RECURSIVE DecimalValue(_)
DecimalValue(s) ==
    IF s = <<>> THEN 0
    ELSE 10 * DecimalValue(SubSeq(s, 1, Len(s) - 1)) + DigitVal(s[Len(s)])

\* parseInt(str) without a radix: leading white space is skipped, then an
\* optional sign, then the longest run of decimal digits; NaN without a digit.
\* (The model has no "x", so the hexadecimal prefix cannot occur.)
\* The result is a record: nan tells NaN, v is the number otherwise.
ParseInt(s) ==
    LET nonWs == {i \in 1..Len(s) : s[i] \notin Whitespace}
        b     == IF nonWs = {} THEN Len(s) + 1 ELSE SetMin(nonWs)
        neg   == b <= Len(s) /\ s[b] = "-"
        sgn   == b <= Len(s) /\ s[b] \in {"-", "+"}
        d     == IF sgn THEN b + 1 ELSE b
        stops == {i \in d..Len(s) : s[i] \notin AsciiDigits}
        e     == IF stops = {} THEN Len(s) ELSE SetMin(stops) - 1
    IN  IF e < d THEN [nan |-> TRUE, v |-> 0]
        ELSE IF neg THEN [nan |-> FALSE, v |-> 0 - DecimalValue(SubSeq(s, d, e))]
        ELSE [nan |-> FALSE, v |-> DecimalValue(SubSeq(s, d, e))]

\* a scan without the parseInt fallback: return result
OrParseIntOrZero_NoFallback(sum, p) == sum

\* result || parseInt(str) || 0: the numbers 0 and NaN are falsy
OrParseIntOrZero(sum, p) ==
    IF sum # 0 THEN sum
    ELSE IF ~p.nan /\ p.v # 0 THEN p.v
    ELSE 0

(***************************************************************************)
(* chineseToNumber as a function of its argument                           *)
(***************************************************************************)
\* the body of the scan loop for one character
ScanStep(acc, char) ==
    IF char \notin ChineseNumChars THEN acc
    ELSE LET num == chineseNums(char) IN
         IF num >= 10
         THEN LET t == IF acc.temp = 0 THEN 1 ELSE acc.temp
              IN  [result |-> acc.result + t * num, temp |-> 0, unit |-> num]
         ELSE [acc EXCEPT !.temp = num]

RECURSIVE ScanLoop(_, _, _)
ScanLoop(s, i, acc) ==
    IF i = 0 THEN acc ELSE ScanLoop(s, i - 1, ScanStep(acc, s[i]))

chineseToNumber(str) ==
    IF str = <<>> THEN 0
    ELSE IF IsPureDigits(str) THEN ParseInt(str).v
    ELSE LET acc == ScanLoop(str, Len(str), [result |-> 0, temp |-> 0, unit |-> 1])
         IN  OrParseIntOrZero(acc.result + acc.temp, ParseInt(str))

(***************************************************************************)
(* Text: trim, split, join, countWords                                     *)
(***************************************************************************)
\* String.prototype.trim
Trim(s) ==
    LET keep == {i \in 1..Len(s) : s[i] \notin Whitespace}
        \* the last kept position: only white space follows it
        last == CHOOSE i \in keep :
                    \A j \in (i + 1)..Len(s) : s[j] \in Whitespace
    IN  IF keep = {} THEN <<>> ELSE SubSeq(s, SetMin(keep), last)

\* content.split('\n'): always at least one piece
SplitLines(content) ==
    LET nl    == {i \in 1..Len(content) : content[i] = "\n"}
        n     == Cardinality(nl)
        \* position of the k-th newline, 0 before the first, Len+1 after the last
        cut   == [k \in 0..(n + 1) |->
                    IF k = 0 THEN 0
                    ELSE IF k = n + 1 THEN Len(content) + 1
                    ELSE CHOOSE i \in nl : Cardinality({j \in nl : j <= i}) = k]
    IN  [k \in 1..(n + 1) |-> SubSeq(content, cut[k - 1] + 1, cut[k] - 1)]

\* lines.join('\n')
RECURSIVE JoinLines(_)
JoinLines(ls) ==
    IF ls = <<>> THEN <<>>
    ELSE IF Len(ls) = 1 THEN ls[1]
    ELSE JoinLines(SubSeq(ls, 1, Len(ls) - 1)) \o <<"\n">> \o ls[Len(ls)]

\* text.replace(/\s/g, '').length, 0 for an empty text
countWords(text) == Cardinality({i \in 1..Len(text) : text[i] \notin Whitespace})

\* s.endsWith(suffix)
EndsWith(s, suffix) ==
    /\ Len(s) >= Len(suffix)
    /\ SubSeq(s, Len(s) - Len(suffix) + 1, Len(s)) = suffix

\* n copies of the character c
Repeat(c, n) == [i \in 1..n |-> c]

\* String(k) for an integer k >= 0
DigitChars == <<"0", "1", "2", "3", "4", "5", "6", "7", "8", "9">>
RECURSIVE DecimalDigits(_)
DecimalDigits(k) ==
    IF k < 10 THEN <<DigitChars[k + 1]>>
    ELSE DecimalDigits(k \div 10) \o <<DigitChars[(k % 10) + 1]>>

(***************************************************************************)
(* CHAPTER_PATTERNS and isChapterTitle                                     *)
(***************************************************************************)
\* [U+96F6 .. U+4E07 and \d]
NumeralClass == ChineseNumChars \cup AsciiDigits
\* [zhang jie hui juan bu ji]: U+7AE0 U+8282 U+56DE U+5377 U+90E8 U+96C6
MarkerAll == {"zhang", "jie", "hui", "juan", "bu", "ji"}
MarkerChapter == {"zhang", "jie", "hui"}
MarkerVolume == {"juan", "bu"}
\* [U+FF1A : _ U+00B7]
TitleSeparators == {"fcolon", ":", "_", "middot"}
\* [U+3001 . U+FF0E]
ListSeparators == {"dun", ".", "fdot"}
\* [U+3010 \[] and [U+3011 \]]
OpenBrackets == {"lbrk", "["}
CloseBrackets == {"rbrk", "]"}

\* length of the longest run of characters of class C that starts at s[from]
RunLength(s, from, C) ==
    LET stops == {i \in from..Len(s) : s[i] \notin C}
    IN  IF stops = {} THEN Len(s) - from + 1 ELSE SetMin(stops) - from

\* /^di[numeral]+[zhang jie hui juan bu ji]\s*[separator]?\s*.{0,50}$/
PatternStandard(s) ==
    /\ Len(s) >= 3
    /\ s[1] = "di"
    /\ LET r == RunLength(s, 2, NumeralClass)
           m == 2 + r
       IN  /\ r >= 1
           /\ m <= Len(s)
           /\ s[m] \in MarkerAll
           /\ LET w1  == RunLength(s, m + 1, Whitespace)
                  q   == m + 1 + w1
                  sep == q <= Len(s) /\ s[q] \in TitleSeparators
                  w2  == IF sep THEN RunLength(s, q + 1, Whitespace) ELSE 0
                  eat == w1 + (IF sep THEN 1 + w2 ELSE 0)
              IN  Len(s) - m - eat <= 50

\* /^[open](di.{1,5}[zhang jie hui])[close].{0,50}$/
PatternBracket(s) ==
    /\ Len(s) >= 5
    /\ s[1] \in OpenBrackets
    /\ s[2] = "di"
    /\ \E p \in 4..8 :
         /\ p + 1 <= Len(s)
         /\ s[p] \in MarkerChapter
         /\ s[p + 1] \in CloseBrackets
         /\ Len(s) - (p + 1) <= 50

\* /^[\d]+[list separator].{1,50}$/
PatternArabicList(s) ==
    LET r == RunLength(s, 1, AsciiDigits)
    IN  /\ r >= 1
        /\ r + 1 <= Len(s)
        /\ s[r + 1] \in ListSeparators
        /\ Len(s) - (r + 1) >= 1
        /\ Len(s) - (r + 1) <= 50

\* /^[chinese numeral]+[list separator].{1,50}$/
PatternChineseList(s) ==
    LET r == RunLength(s, 1, ChineseNumChars)
    IN  /\ r >= 1
        /\ r + 1 <= Len(s)
        /\ s[r + 1] \in ListSeparators
        /\ Len(s) - (r + 1) >= 1
        /\ Len(s) - (r + 1) <= 50

\* the /i flag on the letters of "Chapter"
LowerCase(c) ==
    CASE c = "C" -> "c" [] c = "H" -> "h" [] c = "A" -> "a" [] c = "P" -> "p"
      [] c = "T" -> "t" [] c = "E" -> "e" [] c = "R" -> "r" [] OTHER -> c

\* /^Chapter\s*\d+.*$/i
PatternEnglish(s) ==
    /\ Len(s) >= 8
    /\ [i \in 1..7 |-> LowerCase(s[i])] = <<"c", "h", "a", "p", "t", "e", "r">>
    /\ LET w == RunLength(s, 8, Whitespace)
       IN  8 + w <= Len(s) /\ s[8 + w] \in AsciiDigits

\* /^[di][numeral]+[juan bu].{0,30}$/
PatternVolume(s) ==
    /\ Len(s) >= 3
    /\ s[1] = "di"
    /\ LET r == RunLength(s, 2, NumeralClass)
           m == 2 + r
       IN  /\ r >= 1
           /\ m <= Len(s)
           /\ s[m] \in MarkerVolume
           /\ Len(s) - m <= 30

\* /^di[\d]+.{0,30}$/
PatternSimple(s) ==
    /\ Len(s) >= 2
    /\ s[1] = "di"
    /\ LET r == RunLength(s, 2, AsciiDigits)
       IN  r >= 1 /\ Len(s) - 1 - r <= 30

MaxTitleLength == 60

isChapterTitle(line) ==
    LET trimmed == Trim(line)
    IN  /\ Len(trimmed) > 0
        /\ ~(Len(trimmed) > MaxTitleLength)
        /\ \/ PatternStandard(trimmed)
           \/ PatternBracket(trimmed)
           \/ PatternArabicList(trimmed)
           \/ PatternChineseList(trimmed)
           \/ PatternEnglish(trimmed)
           \/ PatternVolume(trimmed)
           \/ PatternSimple(trimmed)

(***************************************************************************)
(* parseChapterTitle                                                       *)
(***************************************************************************)
\* positions p where /di([numeral]+)[zhang jie hui]/ matches starting at p
NumberMatchStarts(s) ==
    {p \in 1..Len(s) :
        /\ s[p] = "di"
        /\ LET r == RunLength(s, p + 1, NumeralClass)
           IN  /\ r >= 1
               /\ p + 1 + r <= Len(s)
               /\ s[p + 1 + r] \in MarkerChapter}

\* A value that may be null is a sequence: <<>> is null, <<v>> is v.
\* parseChapterTitle returns null or {number, title, raw}, number may be null.
parseChapterTitle(line) ==
    IF ~isChapterTitle(line) THEN <<>>
    ELSE LET trimmed == Trim(line)
             starts  == NumberMatchStarts(trimmed)
             digits  == RunLength(trimmed, 1, AsciiDigits)
             number  ==
                IF starts # {}
                THEN LET p == SetMin(starts)
                         r == RunLength(trimmed, p + 1, NumeralClass)
                     IN  <<chineseToNumber(SubSeq(trimmed, p + 1, p + r))>>
                ELSE IF digits >= 1
                THEN <<ParseInt(SubSeq(trimmed, 1, digits)).v>>
                ELSE <<>>
         IN  <<[number |-> number, title |-> trimmed, raw |-> trimmed]>>

(***************************************************************************)
(* splitChapters, getChapterStats                                          *)
(***************************************************************************)
DefaultMinChapterLength == 100

\* chapters.unshift in place of chapters.push
CloseChapter_Unshift(st, opts) ==
    IF st.currentChapter # <<>> /\ Len(st.currentContent) > 0
    THEN LET chapterText == Trim(JoinLines(st.currentContent))
         IN  IF opts.includeEmpty \/ Len(chapterText) >= opts.minChapterLength
             THEN <<[st.currentChapter[1] EXCEPT
                        !.content = chapterText,
                        !.wordCount = countWords(chapterText),
                        !.lineCount = Len(st.currentContent)]>>
                  \o st.chapters
             ELSE st.chapters
    ELSE st.chapters

\* every chapter with a line is pushed, whatever its length
CloseChapter_NoLengthTest(st, opts) ==
    IF st.currentChapter # <<>> /\ Len(st.currentContent) > 0
    THEN LET chapterText == Trim(JoinLines(st.currentContent))
         IN  Append(st.chapters,
                    [st.currentChapter[1] EXCEPT
                        !.content = chapterText,
                        !.wordCount = countWords(chapterText),
                        !.lineCount = Len(st.currentContent)])
    ELSE st.chapters

\* if (currentChapter && currentContent.length > 0) { ... chapters.push }
CloseChapter(st, opts) ==
    IF st.currentChapter # <<>> /\ Len(st.currentContent) > 0
    THEN LET chapterText == Trim(JoinLines(st.currentContent))
         IN  IF opts.includeEmpty \/ Len(chapterText) >= opts.minChapterLength
             THEN Append(st.chapters,
                         [st.currentChapter[1] EXCEPT
                             !.content = chapterText,
                             !.wordCount = countWords(chapterText),
                             !.lineCount = Len(st.currentContent)])
             ELSE st.chapters
    ELSE st.chapters

\* chapterInfo.number || chapterCount: null and 0 are falsy
NumberOrCount(number, count) ==
    IF number # <<>> /\ number[1] # 0 THEN number[1] ELSE count

\* a line that is no boundary is pushed whether or not a chapter is open
SplitLine_KeepsPreamble(st, line, opts) ==
    LET chapterInfo == parseChapterTitle(line)
    IN  IF chapterInfo # <<>>
        THEN [chapters |-> CloseChapter(st, opts),
              chapterCount |-> st.chapterCount + 1,
              currentChapter |->
                  <<[number |-> NumberOrCount(chapterInfo[1].number,
                                              st.chapterCount + 1),
                     title |-> chapterInfo[1].title,
                     content |-> <<>>,
                     wordCount |-> 0,
                     lineCount |-> 0]>>,
              currentContent |-> <<>>]
        ELSE [st EXCEPT !.currentContent = Append(st.currentContent, line)]

\* the body of for (const line of lines)
SplitLine(st, line, opts) ==
    LET chapterInfo == parseChapterTitle(line)
    IN  IF chapterInfo # <<>>
        THEN [chapters |-> CloseChapter(st, opts),
              chapterCount |-> st.chapterCount + 1,
              currentChapter |->
                  <<[number |-> NumberOrCount(chapterInfo[1].number,
                                              st.chapterCount + 1),
                     title |-> chapterInfo[1].title,
                     content |-> <<>>,
                     wordCount |-> 0,
                     lineCount |-> 0]>>,
              currentContent |-> <<>>]
        ELSE IF st.currentChapter # <<>>
        THEN [st EXCEPT !.currentContent = Append(st.currentContent, line)]
        ELSE st

SplitStart ==
    [chapters |-> <<>>, chapterCount |-> 0, currentChapter |-> <<>>,
     currentContent |-> <<>>]

RECURSIVE SplitLoop(_, _, _, _)
SplitLoop(st, ls, i, opts) ==
    IF i > Len(ls) THEN st
    ELSE SplitLoop(SplitLine(st, ls[i], opts), ls, i + 1, opts)

splitChapters(content, opts) ==
    CloseChapter(SplitLoop(SplitStart, SplitLines(content), 1, opts), opts)

\* wordCounts.reduce((a, b) => a + b, 0)
RECURSIVE ReduceSum(_, _, _)
ReduceSum(wordCounts, i, a) ==
    IF i > Len(wordCounts) THEN a
    ELSE ReduceSum(wordCounts, i + 1, a + wordCounts[i])

\* Math.round(p / q) for p >= 0, q > 0: halves round up
RoundDiv(p, q) == (2 * p + q) \div (2 * q)

\* the sum seeded with the first word count and then run over all of them
getChapterStats_SeededSum(chs) ==
    IF Len(chs) = 0
    THEN [total |-> 0, totalWords |-> 0, avgWords |-> 0, maxWords |-> 0,
          minWords |-> 0]
    ELSE LET wordCounts == [i \in 1..Len(chs) |-> chs[i].wordCount]
         IN  [total |-> Len(chs),
              totalWords |-> ReduceSum(wordCounts, 1, wordCounts[1]),
              avgWords |-> RoundDiv(ReduceSum(wordCounts, 1, 0), Len(chs)),
              maxWords |-> SetMax({wordCounts[i] : i \in 1..Len(chs)}),
              minWords |-> SetMin({wordCounts[i] : i \in 1..Len(chs)})]

getChapterStats(chs) ==
    IF Len(chs) = 0
    THEN [total |-> 0, totalWords |-> 0, avgWords |-> 0, maxWords |-> 0,
          minWords |-> 0]
    ELSE LET wordCounts == [i \in 1..Len(chs) |-> chs[i].wordCount]
         IN  [total |-> Len(chs),
              totalWords |-> ReduceSum(wordCounts, 1, 0),
              avgWords |-> RoundDiv(ReduceSum(wordCounts, 1, 0), Len(chs)),
              maxWords |-> SetMax({wordCounts[i] : i \in 1..Len(chs)}),
              minWords |-> SetMin({wordCounts[i] : i \in 1..Len(chs)})]

(***************************************************************************)
(* chineseToNumber: the right-to-left scan, one loop iteration per step    *)
(***************************************************************************)
MaxNumLen == 4

NumAlphabet ==
    {"ling", "yi", "er", "san", "ba", "shi", "bai", "qian", "wan",
     "0", "3", "-", " ", "zhang"}

\* a component that is not run
NumIdle ==
    /\ numStr = <<>>
    /\ numPc = "idle"
    /\ numI = 0
    /\ numResult = 0
    /\ numTemp = 0
    /\ numUnit = 1
    /\ numRet = 0

SegIdle ==
    /\ segContent = <<>>
    /\ segOpts = [minChapterLength |-> DefaultMinChapterLength,
                  includeEmpty |-> FALSE]
    /\ segPc = "idle"
    /\ lines = <<>>
    /\ lineIdx = 0
    /\ chapters = <<>>
    /\ currentChapter = <<>>
    /\ currentContent = <<>>
    /\ chapterCount = 0
    /\ novelData = <<>>

ChkIdle ==
    /\ file = [state |-> "absent", content |-> <<>>]
    /\ bookInfo = [wordCount |-> <<>>]
    /\ useLLM = FALSE
    /\ pc = "idle"
    /\ scriptCheck = <<>>
    /\ result = <<>>
    /\ llmCheck = <<>>
    /\ verdict = <<>>
    /\ oracleRequests = 0
    /\ meta = <<>>

WcIdle ==
    /\ wcStr = <<>>
    /\ wcTotalWords = 0
    /\ wcPc = "idle"
    /\ wcExpected = <<>>
    /\ wcIssues = <<>>

EncIdle ==
    /\ buffer = [pad |-> 0, rest |-> <<>>]
    /\ encPc = "idle"
    /\ encI = 0
    /\ gbkScore = 0
    /\ utf8Score = 0
    /\ detectedEncoding = <<>>

TtlIdle ==
    /\ ttlLine = <<>>
    /\ ttlPc = "idle"
    /\ ttlTrimmed = <<>>
    /\ ttlPattern = 0
    /\ ttlIsTitle = <<>>
    /\ ttlNumber = <<>>
    /\ ttlRet = <<>>

SavIdle ==
    /\ chapterFiles = {}
    /\ saveRet = <<>>

WsIdle ==
    /\ wsIndexFile = <<>>
    /\ wsDirs = {}
    /\ wsClock = 0
    /\ wsPc = "idle"
    /\ wsArg = 0
    /\ wsDirName = <<>>
    /\ wsLast = [op |-> "none", arg |-> 0, existed |-> FALSE, ret |-> "none"]

NvIdle ==
    /\ nvIndexFile = <<>>
    /\ nvDirs = {}
    /\ nvPc = <<>>
    /\ nvLocal = <<>>

NumInit ==
    /\ numStr \in SeqsUpTo(NumAlphabet, MaxNumLen)
    /\ numPc = "entry"
    /\ numI = 0
    /\ numResult = 0
    /\ numTemp = 0
    /\ numUnit = 1
    /\ numRet = 0
    /\ SegIdle
    /\ ChkIdle
    /\ WcIdle
    /\ EncIdle
    /\ TtlIdle
    /\ SavIdle
    /\ WsIdle
    /\ NvIdle

\* if (!str) return 0
NumEmpty ==
    /\ numPc = "entry"
    /\ numStr = <<>>
    /\ numPc' = "done"
    /\ numRet' = 0
    /\ UNCHANGED <<numStr, numI, numResult, numTemp, numUnit, notNum>>

\* if (/^\d+$/.test(str)) return parseInt(str)
NumPureDigits ==
    /\ numPc = "entry"
    /\ IsPureDigits(numStr)
    /\ numPc' = "done"
    /\ numRet' = ParseInt(numStr).v
    /\ UNCHANGED <<numStr, numI, numResult, numTemp, numUnit, notNum>>

\* let result = 0, temp = 0, unit = 1; i = str.length - 1
NumBeginScan ==
    /\ numPc = "entry"
    /\ numStr # <<>>
    /\ ~IsPureDigits(numStr)
    /\ numPc' = "scan"
    /\ numI' = Len(numStr)
    /\ numResult' = 0
    /\ numTemp' = 0
    /\ numUnit' = 1
    /\ UNCHANGED <<numStr, numRet, notNum>>

\* one iteration of for (let i = str.length - 1; i >= 0; i--)
NumScanStep ==
    /\ numPc = "scan"
    /\ numI >= 1
    /\ LET acc == ScanStep([result |-> numResult, temp |-> numTemp,
                            unit |-> numUnit], numStr[numI])
       IN  /\ numResult' = acc.result
           /\ numTemp' = acc.temp
           /\ numUnit' = acc.unit
    /\ numI' = numI - 1
    /\ UNCHANGED <<numStr, numPc, numRet, notNum>>

\* result += temp; return result || parseInt(str) || 0
NumReturn ==
    /\ numPc = "scan"
    /\ numI = 0
    /\ numResult' = numResult + numTemp
    /\ numRet' = OrParseIntOrZero(numResult + numTemp, ParseInt(numStr))
    /\ numPc' = "done"
    /\ UNCHANGED <<numStr, numI, numTemp, numUnit, notNum>>

NumNext == NumEmpty \/ NumPureDigits \/ NumBeginScan \/ NumScanStep \/ NumReturn

SpecNum == NumInit /\ [][NumNext]_vars

(***************************************************************************)
(* The numeral rule, stated by position instead of by a scan               *)
(***************************************************************************)
UnitPositions(s) ==
    {i \in 1..Len(s) : s[i] \in ChineseNumChars /\ chineseNums(s[i]) >= 10}
DigitPositions(s) ==
    {i \in 1..Len(s) : s[i] \in ChineseNumChars /\ chineseNums(s[i]) < 10}

\* the digit that counts for the stretch lo < i < hi: its leftmost one
PendingDigit(s, lo, hi) ==
    LET ds == {i \in DigitPositions(s) : lo < i /\ i < hi}
    IN  IF ds = {} THEN 0 ELSE chineseNums(s[SetMin(ds)])

UnitTerm(s, u) ==
    LET later == {i \in UnitPositions(s) : i > u}
        hi    == IF later = {} THEN Len(s) + 1 ELSE SetMin(later)
        t     == PendingDigit(s, u, hi)
    IN  (IF t = 0 THEN 1 ELSE t) * chineseNums(s[u])

RECURSIVE SumUnitTerms(_, _)
SumUnitTerms(s, S) ==
    IF S = {} THEN 0
    ELSE LET u == SetMin(S) IN UnitTerm(s, u) + SumUnitTerms(s, S \ {u})

\* every unit adds max(temp,1) * unit, the leftover digit is added at the end
ScanRule(s) ==
    LET us    == UnitPositions(s)
        first == IF us = {} THEN Len(s) + 1 ELSE SetMin(us)
    IN  SumUnitTerms(s, us) + PendingDigit(s, 0, first)

\* the signed digit run a string starts with after white space, 0 without one
LeadingInteger(s) ==
    LET b     == RunLength(s, 1, Whitespace) + 1
        neg   == b <= Len(s) /\ s[b] = "-"
        d     == IF b <= Len(s) /\ s[b] \in {"-", "+"} THEN b + 1 ELSE b
        e     == d + RunLength(s, d, AsciiDigits) - 1
        run   == IF e < d THEN 0 ELSE DecimalValue(SubSeq(s, d, e))
    IN  IF neg THEN 0 - run ELSE run

\* the first character that is not white space is a minus sign
StartsWithMinus(s) ==
    LET b == RunLength(s, 1, Whitespace) + 1
    IN  b <= Len(s) /\ s[b] = "-"

\* C7: chineseToNumber gives compound numerals their positional value:
\* U+4E8C U+5341 U+4E09 ("er shi san") is 23 and
\* U+4E00 U+767E U+96F6 U+516B ("yi bai ling ba") is 108.
C7_CompoundNumerals ==
    numPc = "done" =>
        /\ (numStr = <<"er", "shi", "san">> => numRet = 23)
        /\ (numStr = <<"yi", "bai", "ling", "ba">> => numRet = 108)

\* C8 as stated: the result is never negative and equals the integer value of
\* a pure digit string, else the scan rule in which every character that is
\* not a Chinese numeral (ASCII digits of a mixed string too) is skipped, so
\* that it is 0 when the scan adds nothing.
C8_AsStated ==
    numPc = "done" =>
        /\ numRet >= 0
        /\ numRet = IF IsPureDigits(numStr) THEN DecimalValue(numStr)
                    ELSE ScanRule(numStr)

\* C8 amended: the result is the integer value of a pure digit string, else
\* the scan rule when it gives a non-zero sum, else the integer that the
\* string starts with (parseInt's sign and digit run), 0 without one; it is
\* negative only when the string starts, after white space, with a minus sign.
C8_NumeralRule ==
    numPc = "done" =>
        /\ numRet = IF IsPureDigits(numStr) THEN DecimalValue(numStr)
                    ELSE IF ScanRule(numStr) # 0 THEN ScanRule(numStr)
                    ELSE LeadingInteger(numStr)
        /\ (numRet < 0 => StartsWithMinus(numStr))

\* a mixed string whose scan adds nothing returns its leading digit run
C8_Witness ==
    /\ numPc = "done"
    /\ numStr = <<"3", "ling">>
    /\ numRet = 3

(***************************************************************************)
(* parseChapterTitle and isChapterTitle inside it, one test per step       *)
(***************************************************************************)
MaxTitlePad == 52

\* title lines without their tail: every pattern, a numeral fragment at the
\* start, inside brackets and after a leading digit run, the numeral zero,
\* a marker without a numeral, a volume, and lines that are no title
TitleCores ==
    {<<"di", "yi", "zhang">>,
     <<"di", "ling", "zhang">>,
     <<"di", "3", "zhang", " ", "fcolon", " ">>,
     <<"di", "yi", "zhang", " ", " ", " ", " ", " ", " ", " ", " ">>,
     <<"lbrk", "di", "san", "zhang", "rbrk">>,
     <<"lbrk", "di", "w", "zhang", "rbrk">>,
     <<"1", "2", ".">>,
     <<"1", ".", "di", "san", "zhang">>,
     <<"1", ".", "di", "di", "er", "hui">>,
     <<"yi", "dun">>,
     <<"C", "h", "a", "p", "t", "e", "r", " ", "1">>,
     <<"c", "H", "A", "P", "T", "E", "R", "1">>,
     <<"di", "yi", "juan">>,
     <<"di", "1", "2">>,
     <<"di", "di", "er", "hui">>,
     <<"w">>}

\* the lengths of the tail of "w" after the core: around the limits 30 and 50
\* of the patterns and around the limit of the title length
TitlePads == {0, 1, 30, 31, 50, 51, MaxTitlePad}

TitleMargins == {<<<<>>, <<>>>>, <<<<" ">>, <<" ", " ">>>>}

TitleLineSet ==
    {<<>>, <<" ", " ">>}
        \cup {m[1] \o core \o Repeat("w", n) \o m[2] :
                 core \in TitleCores, n \in TitlePads, m \in TitleMargins}

TtlInit ==
    /\ ttlLine \in TitleLineSet
    /\ ttlPc = "entry"
    /\ ttlTrimmed = <<>>
    /\ ttlPattern = 0
    /\ ttlIsTitle = <<>>
    /\ ttlNumber = <<>>
    /\ ttlRet = <<>>
    /\ NumIdle
    /\ SegIdle
    /\ ChkIdle
    /\ WcIdle
    /\ EncIdle
    /\ SavIdle
    /\ WsIdle
    /\ NvIdle

\* CHAPTER_PATTERNS[k - 1].test(s)
PatternAt(k, s) ==
    CASE k = 1 -> PatternStandard(s)
      [] k = 2 -> PatternBracket(s)
      [] k = 3 -> PatternArabicList(s)
      [] k = 4 -> PatternChineseList(s)
      [] k = 5 -> PatternEnglish(s)
      [] k = 6 -> PatternVolume(s)
      [] k = 7 -> PatternSimple(s)

PatternCount == 7

\* if (!line || line.trim().length === 0) return false
TitleEmpty ==
    /\ ttlPc = "entry"
    /\ Len(Trim(ttlLine)) = 0
    /\ ttlIsTitle' = <<FALSE>>
    /\ ttlPc' = "tested"
    /\ UNCHANGED <<ttlLine, ttlTrimmed, ttlPattern, ttlNumber, ttlRet, notTtl>>

\* const trimmed = line.trim()
TitleTrim ==
    /\ ttlPc = "entry"
    /\ Len(Trim(ttlLine)) # 0
    /\ ttlTrimmed' = Trim(ttlLine)
    /\ ttlPc' = "length"
    /\ UNCHANGED <<ttlLine, ttlPattern, ttlIsTitle, ttlNumber, ttlRet, notTtl>>

\* if (trimmed.length > 60) return false
TitleTooLong ==
    /\ ttlPc = "length"
    /\ Len(ttlTrimmed) > MaxTitleLength
    /\ ttlIsTitle' = <<FALSE>>
    /\ ttlPc' = "tested"
    /\ UNCHANGED <<ttlLine, ttlTrimmed, ttlPattern, ttlNumber, ttlRet, notTtl>>

\* the patterns are tried whatever the length
TitleBeginPatterns_NoLengthTest ==
    /\ ttlPc = "length"
    /\ ttlPattern' = 1
    /\ ttlPc' = "some"
    /\ UNCHANGED <<ttlLine, ttlTrimmed, ttlIsTitle, ttlNumber, ttlRet, notTtl>>

\* CHAPTER_PATTERNS.some(...) starts with the first pattern
TitleBeginPatterns ==
    /\ ttlPc = "length"
    /\ ~(Len(ttlTrimmed) > MaxTitleLength)
    /\ ttlPattern' = 1
    /\ ttlPc' = "some"
    /\ UNCHANGED <<ttlLine, ttlTrimmed, ttlIsTitle, ttlNumber, ttlRet, notTtl>>

\* some: the first pattern that matches ends the search with true
TitlePatternMatches ==
    /\ ttlPc = "some"
    /\ ttlPattern <= PatternCount
    /\ PatternAt(ttlPattern, ttlTrimmed)
    /\ ttlIsTitle' = <<TRUE>>
    /\ ttlPc' = "tested"
    /\ UNCHANGED <<ttlLine, ttlTrimmed, ttlPattern, ttlNumber, ttlRet, notTtl>>

\* some: a pattern that does not match, on to the next one
TitlePatternFails ==
    /\ ttlPc = "some"
    /\ ttlPattern <= PatternCount
    /\ ~PatternAt(ttlPattern, ttlTrimmed)
    /\ ttlPattern' = ttlPattern + 1
    /\ UNCHANGED <<ttlLine, ttlPc, ttlTrimmed, ttlIsTitle, ttlNumber, ttlRet,
                   notTtl>>

\* some: no pattern matched
TitleNoPattern ==
    /\ ttlPc = "some"
    /\ ttlPattern > PatternCount
    /\ ttlIsTitle' = <<FALSE>>
    /\ ttlPc' = "tested"
    /\ UNCHANGED <<ttlLine, ttlTrimmed, ttlPattern, ttlNumber, ttlRet, notTtl>>

\* if (!isChapterTitle(line)) return null
ParseTitleNull ==
    /\ ttlPc = "tested"
    /\ ~ttlIsTitle[1]
    /\ ttlRet' = <<>>
    /\ ttlPc' = "done"
    /\ UNCHANGED <<ttlLine, ttlTrimmed, ttlPattern, ttlIsTitle, ttlNumber,
                   notTtl>>

\* const numberMatch = trimmed.match(/di([numeral]+)[zhang jie hui]/);
\* if (numberMatch) number = chineseToNumber(numberMatch[1])
ParseTitleNumberMatch ==
    /\ ttlPc = "tested"
    /\ ttlIsTitle[1]
    /\ NumberMatchStarts(Trim(ttlLine)) # {}
    /\ LET trimmed == Trim(ttlLine)
           p == SetMin(NumberMatchStarts(trimmed))
           r == RunLength(trimmed, p + 1, NumeralClass)
       IN  ttlNumber' = <<chineseToNumber(SubSeq(trimmed, p + 1, p + r))>>
    /\ ttlPc' = "numbered"
    /\ UNCHANGED <<ttlLine, ttlTrimmed, ttlPattern, ttlIsTitle, ttlRet, notTtl>>

\* the leading digit run is taken whether or not a numeral fragment matched
ParseTitleSimpleMatch_DigitsFirst ==
    /\ ttlPc = "tested"
    /\ ttlIsTitle[1]
    /\ RunLength(Trim(ttlLine), 1, AsciiDigits) >= 1
    /\ LET trimmed == Trim(ttlLine)
           digits == RunLength(trimmed, 1, AsciiDigits)
       IN  ttlNumber' = <<ParseInt(SubSeq(trimmed, 1, digits)).v>>
    /\ ttlPc' = "numbered"
    /\ UNCHANGED <<ttlLine, ttlTrimmed, ttlPattern, ttlIsTitle, ttlRet, notTtl>>

\* if (number === null) { simpleMatch = trimmed.match(/^(\d+)/);
\* if (simpleMatch) number = parseInt(simpleMatch[1]) }
ParseTitleSimpleMatch ==
    /\ ttlPc = "tested"
    /\ ttlIsTitle[1]
    /\ NumberMatchStarts(Trim(ttlLine)) = {}
    /\ RunLength(Trim(ttlLine), 1, AsciiDigits) >= 1
    /\ LET trimmed == Trim(ttlLine)
           digits == RunLength(trimmed, 1, AsciiDigits)
       IN  ttlNumber' = <<ParseInt(SubSeq(trimmed, 1, digits)).v>>
    /\ ttlPc' = "numbered"
    /\ UNCHANGED <<ttlLine, ttlTrimmed, ttlPattern, ttlIsTitle, ttlRet, notTtl>>

\* neither match: number stays null
ParseTitleNoNumber ==
    /\ ttlPc = "tested"
    /\ ttlIsTitle[1]
    /\ NumberMatchStarts(Trim(ttlLine)) = {}
    /\ RunLength(Trim(ttlLine), 1, AsciiDigits) = 0
    /\ ttlNumber' = <<>>
    /\ ttlPc' = "numbered"
    /\ UNCHANGED <<ttlLine, ttlTrimmed, ttlPattern, ttlIsTitle, ttlRet, notTtl>>

\* return {number, title, raw: trimmed}
ParseTitleReturn ==
    /\ ttlPc = "numbered"
    /\ ttlRet' = <<[number |-> ttlNumber, title |-> Trim(ttlLine),
                    raw |-> Trim(ttlLine)]>>
    /\ ttlPc' = "done"
    /\ UNCHANGED <<ttlLine, ttlTrimmed, ttlPattern, ttlIsTitle, ttlNumber,
                   notTtl>>

TtlNext ==
    \/ TitleEmpty
    \/ TitleTrim
    \/ TitleTooLong
    \/ TitleBeginPatterns
    \/ TitlePatternMatches
    \/ TitlePatternFails
    \/ TitleNoPattern
    \/ ParseTitleNull
    \/ ParseTitleNumberMatch
    \/ ParseTitleSimpleMatch
    \/ ParseTitleNoNumber
    \/ ParseTitleReturn

SpecTitle == TtlInit /\ [][TtlNext]_vars

(***************************************************************************)
(* parseNovel: read the text, split it line by line, aggregate             *)
(***************************************************************************)
MaxSegLines == 4

\* the lines a document is made of: boundary lines with a numeral, with the
\* numeral zero and without a numeral, and content lines (short, with white
\* space, empty, and one as long as the default minimum chapter length)
SegLineSet ==
    {<<"di", "yi", "zhang">>,
     <<"di", "ling", "zhang">>,
     <<"yi", "dun", "w">>,
     <<"w", "w">>,
     <<" ", "w", " ", "w">>,
     <<>>,
     Repeat("w", DefaultMinChapterLength)}

SegOptionSet ==
    [minChapterLength : {DefaultMinChapterLength, 2}, includeEmpty : BOOLEAN]

SegInit ==
    /\ segContent \in {JoinLines(ls) : ls \in SeqsUpTo(SegLineSet, MaxSegLines)}
    /\ segOpts \in SegOptionSet
    /\ segPc = "entry"
    /\ lines = <<>>
    /\ lineIdx = 0
    /\ chapters = <<>>
    /\ currentChapter = <<>>
    /\ currentContent = <<>>
    /\ chapterCount = 0
    /\ novelData = <<>>
    /\ NumIdle
    /\ ChkIdle
    /\ WcIdle
    /\ EncIdle
    /\ TtlIdle
    /\ SavIdle
    /\ WsIdle
    /\ NvIdle

SplitState ==
    [chapters |-> chapters, chapterCount |-> chapterCount,
     currentChapter |-> currentChapter, currentContent |-> currentContent]

\* if (!content) throw new Error(...)
ParseNovelUnreadable ==
    /\ segPc = "entry"
    /\ segContent = <<>>
    /\ segPc' = "threw"
    /\ UNCHANGED <<segContent, segOpts, lines, lineIdx, chapters,
                   currentChapter, currentContent, chapterCount, novelData,
                   notSeg>>

\* const lines = content.split('\n'); chapters = []; currentChapter = null ...
SplitBegin ==
    /\ segPc = "entry"
    /\ segContent # <<>>
    /\ lines' = SplitLines(segContent)
    /\ lineIdx' = 1
    /\ chapters' = SplitStart.chapters
    /\ currentChapter' = SplitStart.currentChapter
    /\ currentContent' = SplitStart.currentContent
    /\ chapterCount' = SplitStart.chapterCount
    /\ segPc' = "loop"
    /\ UNCHANGED <<segContent, segOpts, novelData, notSeg>>

SplitAssign(st) ==
    /\ chapters' = st.chapters
    /\ currentChapter' = st.currentChapter
    /\ currentContent' = st.currentContent
    /\ chapterCount' = st.chapterCount
    /\ lineIdx' = lineIdx + 1
    /\ UNCHANGED <<segContent, segOpts, segPc, lines, novelData, notSeg>>

\* a line that parseChapterTitle recognises: close the chapter, open the next
SplitBoundaryLine ==
    /\ segPc = "loop"
    /\ lineIdx <= Len(lines)
    /\ parseChapterTitle(lines[lineIdx]) # <<>>
    /\ SplitAssign(SplitLine(SplitState, lines[lineIdx], segOpts))

\* else if (currentChapter) currentContent.push(line)
SplitContentLine ==
    /\ segPc = "loop"
    /\ lineIdx <= Len(lines)
    /\ parseChapterTitle(lines[lineIdx]) = <<>>
    /\ currentChapter # <<>>
    /\ SplitAssign(SplitLine(SplitState, lines[lineIdx], segOpts))

\* a line before the first boundary: neither branch is taken
SplitSkipLine ==
    /\ segPc = "loop"
    /\ lineIdx <= Len(lines)
    /\ parseChapterTitle(lines[lineIdx]) = <<>>
    /\ currentChapter = <<>>
    /\ SplitAssign(SplitLine(SplitState, lines[lineIdx], segOpts))

\* after the loop: the last chapter is closed with the same rule
SplitFlush ==
    /\ segPc = "loop"
    /\ lineIdx > Len(lines)
    /\ chapters' = CloseChapter(SplitState, segOpts)
    /\ segPc' = "split"
    /\ UNCHANGED <<segContent, segOpts, lines, lineIdx, currentChapter,
                   currentContent, chapterCount, novelData, notSeg>>

\* totalWords taken from the chapter statistics
NovelData_ChapterTotal(content, chs) ==
    [fileSize |-> Len(content),
     totalCharacters |-> Len(content),
     totalWords |-> getChapterStats(chs).totalWords,
     chapterCount |-> Len(chs),
     chapterStats |-> getChapterStats(chs),
     chapters |-> chs]

\* the object parseNovel returns
NovelData(content, chs) ==
    [fileSize |-> Len(content),
     totalCharacters |-> Len(content),
     totalWords |-> countWords(content),
     chapterCount |-> Len(chs),
     chapterStats |-> getChapterStats(chs),
     chapters |-> chs]

\* const stats = getChapterStats(chapters); return result
ParseNovelReturn ==
    /\ segPc = "split"
    /\ novelData' = <<NovelData(segContent, chapters)>>
    /\ segPc' = "done"
    /\ UNCHANGED <<segContent, segOpts, lines, lineIdx, chapters,
                   currentChapter, currentContent, chapterCount, notSeg>>

\* `${String(chapter.number).padStart(4, '0')}.txt`
ChapterFileName(number) ==
    LET digits == DecimalDigits(number)
    IN  Repeat("0", IF Len(digits) < 4 THEN 4 - Len(digits) ELSE 0)
            \o digits \o <<".", "t", "x", "t">>

\* writeText(path, content): the file is created or replaced
WriteText(dir, name, content) ==
    {f \in dir : f[1] # name} \cup {<<name, content>>}

\* for (const chapter of novelData.chapters) await writeText(...)
RECURSIVE WriteChapters(_, _, _)
WriteChapters(dir, chs, i) ==
    IF i > Len(chs) THEN dir
    ELSE WriteChapters(
            WriteText(dir, ChapterFileName(chs[i].number),
                      <<"lbrk">> \o chs[i].title \o <<"rbrk", "\n", "\n">>
                          \o chs[i].content),
            chs, i + 1)

\* the variables of the segmenter that saveChapterSplits leaves alone
segKept == <<segContent, segOpts, lines, lineIdx, chapters, currentChapter,
             currentContent, chapterCount, novelData>>

\* const chaptersDir = await getChaptersDir(seqOrDirName);
\* if (!chaptersDir) return false
SaveChapterSplitsNoDir ==
    /\ segPc = "done"
    /\ saveRet' = <<FALSE>>
    /\ segPc' = "saved"
    /\ UNCHANGED <<chapterFiles, segKept, notSegSav>>

\* the index and one file per record, named by the number of the chapter
SaveChapterSplits ==
    /\ segPc = "done"
    /\ chapterFiles' = WriteChapters(chapterFiles, novelData[1].chapters, 1)
    /\ saveRet' = <<TRUE>>
    /\ segPc' = "saved"
    /\ UNCHANGED <<segKept, notSegSav>>

SegNext ==
    \/ ParseNovelUnreadable
    \/ SplitBegin
    \/ SplitBoundaryLine
    \/ SplitContentLine
    \/ SplitSkipLine
    \/ SplitFlush
    \/ ParseNovelReturn
    \/ SaveChapterSplitsNoDir
    \/ SaveChapterSplits

SpecSeg == SegInit /\ [][SegNext]_vars

(***************************************************************************)
(* parseWordCount and checkIntegrityByScript                               *)
(***************************************************************************)
RECURSIVE Pow10(_)
Pow10(n) == IF n = 0 THEN 1 ELSE 10 * Pow10(n - 1)

\* parseFloat on a run of [\d.]: the longest prefix digits [. digits] that
\* holds a digit; <<>> is NaN, else <<[mant, scale]>> is mant / 10^scale
ParseFloatRun(run) ==
    LET intLen  == RunLength(run, 1, AsciiDigits)
        hasDot  == intLen + 1 <= Len(run) /\ run[intLen + 1] = "."
        fracLen == IF hasDot THEN RunLength(run, intLen + 2, AsciiDigits) ELSE 0
    IN  IF intLen + fracLen = 0 THEN <<>>
        ELSE <<[mant |-> DecimalValue(SubSeq(run, 1, intLen)) * Pow10(fracLen)
                         + DecimalValue(SubSeq(run, intLen + 2,
                                               intLen + 1 + fracLen)),
                scale |-> fracLen]>>

\* the multiplier of the unit that follows the number: wan (U+4E07) 10^4,
\* qian (U+5343) 10^3, bai wan (U+767E U+4E07) 10^6, none 1
UnitMultiplier(s, q) ==
    IF q <= Len(s) /\ s[q] = "wan" THEN 10000
    ELSE IF q <= Len(s) /\ s[q] = "qian" THEN 1000
    ELSE IF q + 1 <= Len(s) /\ s[q] = "bai" /\ s[q + 1] = "wan" THEN 1000000
    ELSE 1

\* wordCountStr is null (<<>>) or <<string>>.  The result is <<>> for NaN,
\* else <<n>>.  match(/([\d.]+)\s*(wan|qian|bai wan)?/), parseFloat,
\* Math.round(num * multiplier); products are exact in the model
parseWordCount(wordCountStr) ==
    IF wordCountStr = <<>> \/ wordCountStr[1] = <<>> THEN <<0>>
    ELSE LET str    == wordCountStr[1]
             starts == {i \in 1..Len(str) : str[i] \in AsciiDigits \cup {"."}}
         IN  IF starts = {} THEN <<0>>
             ELSE LET b   == SetMin(starts)
                      r   == RunLength(str, b, AsciiDigits \cup {"."})
                      w   == RunLength(str, b + r, Whitespace)
                      num == ParseFloatRun(SubSeq(str, b, b + r - 1))
                  IN  IF num = <<>> THEN <<>>
                      ELSE <<RoundDiv(num[1].mant * UnitMultiplier(str, b + r + w),
                                      Pow10(num[1].scale))>>

\* a file of the novel directory: absent, present but not readable (readFile
\* throws), or readable with its text
AbsentFile == [state |-> "absent", content |-> <<>>]
UnreadableFile == [state |-> "unreadable", content |-> <<>>]
TextFile(content) == [state |-> "ok", content |-> content]

MinFileLength == 1000
MinChapterCount == 10

ParseOptionsDefault ==
    [minChapterLength |-> DefaultMinChapterLength, includeEmpty |-> FALSE]

\* only the three dots are looked for
LooksTruncated_DotsOnly(chs) ==
    /\ Len(chs) > 0
    /\ chs[Len(chs)].content # <<>>
    /\ EndsWith(Trim(chs[Len(chs)].content), <<".", ".", ".">>)

\* lastContent.endsWith('...') || lastContent.endsWith(wei wan dai xu)
LooksTruncated(chs) ==
    /\ Len(chs) > 0
    /\ chs[Len(chs)].content # <<>>
    /\ LET lastContent == Trim(chs[Len(chs)].content)
       IN  \/ EndsWith(lastContent, <<".", ".", ".">>)
           \/ EndsWith(lastContent, <<"wei", "wan2", "dai", "xu">>)

\* the chapter count test with the bound included
TooFewChapters_Inclusive(nd) == nd.chapterCount <= MinChapterCount

\* if (novelData.chapterCount < 10)
TooFewChapters(nd) == nd.chapterCount < MinChapterCount

\* the word count test against the declared count itself, not half of it
WordCountInsufficient_Whole(totalWords, expectedWords) ==
    /\ expectedWords # <<>>
    /\ expectedWords[1] > 0
    /\ totalWords < expectedWords[1]

\* if (expectedWords > 0 && novelData.totalWords < expectedWords * 0.5);
\* a comparison with NaN (<<>>) is false
WordCountInsufficient(totalWords, expectedWords) ==
    /\ expectedWords # <<>>
    /\ expectedWords[1] > 0
    /\ 2 * totalWords < expectedWords[1]

\* the checks stopped at the first issue
IssuesOf_ShortCircuit(nd, expectedWords) ==
    IF TooFewChapters(nd) THEN <<"tooFewChapters">>
    ELSE IF WordCountInsufficient(nd.totalWords, expectedWords)
    THEN <<"wordCountInsufficient">>
    ELSE IF LooksTruncated(nd.chapters) THEN <<"possiblyTruncated">>
    ELSE <<>>

\* the issues are named by the check that pushes them
IssuesOf(nd, expectedWords) ==
    (IF TooFewChapters(nd) THEN <<"tooFewChapters">> ELSE <<>>)
    \o (IF WordCountInsufficient(nd.totalWords, expectedWords)
        THEN <<"wordCountInsufficient">> ELSE <<>>)
    \o (IF LooksTruncated(nd.chapters) THEN <<"possiblyTruncated">> ELSE <<>>)

\* the checks on the parsed novel: everything after the length check
ScriptCheckParsed(f, info) ==
    LET nd     == NovelData(f.content,
                            splitChapters(f.content, ParseOptionsDefault))
        issues == IssuesOf(nd, parseWordCount(info.wordCount))
    IN  [valid |-> Len(issues) = 0 /\ nd.chapterCount >= MinChapterCount,
         issues |-> issues,
         stats |-> <<[fileSize |-> Len(f.content),
                      chapterCount |-> nd.chapterCount,
                      totalWords |-> nd.totalWords,
                      avgWordsPerChapter |-> nd.chapterStats.avgWords]>>]

\* without the length check: only the empty text is refused (by parseNovel)
checkIntegrityByScript_NoLengthCheck(f, info) ==
    IF f.state = "absent"
    THEN [valid |-> FALSE, issues |-> <<"fileMissing">>, stats |-> <<>>]
    ELSE IF f.state = "unreadable" \/ f.content = <<>>
    THEN [valid |-> FALSE, issues |-> <<"parseError">>, stats |-> <<>>]
    ELSE ScriptCheckParsed(f, info)

\* stats is {} (<<>>) until the novel has been parsed
checkIntegrityByScript(f, info) ==
    IF f.state = "absent"
    THEN [valid |-> FALSE, issues |-> <<"fileMissing">>, stats |-> <<>>]
    ELSE IF f.state = "unreadable"
    THEN [valid |-> FALSE, issues |-> <<"parseError">>, stats |-> <<>>]
    ELSE IF Len(f.content) < MinFileLength
    THEN [valid |-> FALSE, issues |-> <<"contentTooShort">>, stats |-> <<>>]
    ELSE ScriptCheckParsed(f, info)

\* checkIntegrityByScript of the novel manager: the chapter count and the
\* declared word count are tested, the end of the last chapter is not
classicIssuesOf(nd, expectedWords) ==
    (IF TooFewChapters(nd) THEN <<"tooFewChapters">> ELSE <<>>)
    \o (IF WordCountInsufficient(nd.totalWords, expectedWords)
        THEN <<"wordCountInsufficient">> ELSE <<>>)

classicScriptCheckParsed(f, info) ==
    LET nd     == NovelData(f.content,
                            splitChapters(f.content, ParseOptionsDefault))
        issues == classicIssuesOf(nd, parseWordCount(info.wordCount))
    IN  [valid |-> Len(issues) = 0 /\ nd.chapterCount >= MinChapterCount,
         issues |-> issues,
         stats |-> <<[fileSize |-> Len(f.content),
                      chapterCount |-> nd.chapterCount,
                      totalWords |-> nd.totalWords,
                      avgWordsPerChapter |-> nd.chapterStats.avgWords]>>]

classicCheckIntegrityByScript(f, info) ==
    IF f.state = "absent"
    THEN [valid |-> FALSE, issues |-> <<"fileMissing">>, stats |-> <<>>]
    ELSE IF f.state = "unreadable"
    THEN [valid |-> FALSE, issues |-> <<"parseError">>, stats |-> <<>>]
    ELSE IF Len(f.content) < MinFileLength
    THEN [valid |-> FALSE, issues |-> <<"contentTooShort">>, stats |-> <<>>]
    ELSE classicScriptCheckParsed(f, info)

(***************************************************************************)
(* The declared word count check on its own: parseWordCount, then the test *)
(***************************************************************************)
MaxWcLen == 3

WcAlphabet == {"0", "1", "5", ".", "wan", "qian", "bai", " ", "w"}

\* "100 wan", "446.53 wan" (the example of parseWordCount's comment), "約 1.5
\* qian" with a prefix and white space before the unit
WcExamples ==
    {<<"1", "0", "0", "wan">>,
     <<"4", "4", "6", ".", "5", "3", "wan">>,
     <<"w", "1", ".", "5", " ", "qian", "w">>,
     <<"1", "0", "bai", "wan">>}

\* bookInfo.wordCount: null or a string
WcStringSet ==
    {<<>>} \cup {<<s>> : s \in SeqsUpTo(WcAlphabet, MaxWcLen) \cup WcExamples}

\* novelData.totalWords
WcTotalSet == {0, 1, 499, 500, 4999, 5000, 400000, 499999, 500000}

WcInit ==
    /\ wcStr \in WcStringSet
    /\ wcTotalWords \in WcTotalSet
    /\ wcPc = "entry"
    /\ wcExpected = <<>>
    /\ wcIssues = <<>>
    /\ NumIdle
    /\ SegIdle
    /\ ChkIdle
    /\ EncIdle
    /\ TtlIdle
    /\ SavIdle
    /\ WsIdle
    /\ NvIdle

\* [\d.] occurs in the string: the regular expression matches
WordCountMatches(w) ==
    \E i \in 1..Len(w) : w[i] \in AsciiDigits \cup {"."}

\* !wordCountStr: null and the empty string
NoWordCountString(w) == IF w = <<>> THEN TRUE ELSE w[1] = <<>>

\* if (!wordCountStr) return 0
ParseWordCountNoString ==
    /\ wcPc = "entry"
    /\ NoWordCountString(wcStr)
    /\ wcExpected' = parseWordCount(wcStr)
    /\ wcPc' = "parsed"
    /\ UNCHANGED <<wcStr, wcTotalWords, wcIssues, notWc>>

\* if (!match) return 0
ParseWordCountNoMatch ==
    /\ wcPc = "entry"
    /\ ~NoWordCountString(wcStr)
    /\ ~WordCountMatches(wcStr[1])
    /\ wcExpected' = parseWordCount(wcStr)
    /\ wcPc' = "parsed"
    /\ UNCHANGED <<wcStr, wcTotalWords, wcIssues, notWc>>

\* the switch: return Math.round(num * multiplier)
ParseWordCountRound ==
    /\ wcPc = "entry"
    /\ ~NoWordCountString(wcStr)
    /\ WordCountMatches(wcStr[1])
    /\ wcExpected' = parseWordCount(wcStr)
    /\ wcPc' = "parsed"
    /\ UNCHANGED <<wcStr, wcTotalWords, wcIssues, notWc>>

\* the test holds: result.issues.push(...)
PushWordCountIssue ==
    /\ wcPc = "parsed"
    /\ WordCountInsufficient(wcTotalWords, wcExpected)
    /\ wcIssues' = Append(wcIssues, "wordCountInsufficient")
    /\ wcPc' = "done"
    /\ UNCHANGED <<wcStr, wcTotalWords, wcExpected, notWc>>

\* the test fails: nothing is pushed
SkipWordCountIssue ==
    /\ wcPc = "parsed"
    /\ ~WordCountInsufficient(wcTotalWords, wcExpected)
    /\ wcPc' = "done"
    /\ UNCHANGED <<wcStr, wcTotalWords, wcExpected, wcIssues, notWc>>

WcNext ==
    \/ ParseWordCountNoString
    \/ ParseWordCountNoMatch
    \/ ParseWordCountRound
    \/ PushWordCountIssue
    \/ SkipWordCountIssue

SpecWordCount == WcInit /\ [][WcNext]_vars

(***************************************************************************)
(* checkIntegrityByLLM: the reply of the oracle and what is made of it     *)
(***************************************************************************)
\* confidence in hundredths: 81 is 0.81
LlmValidThreshold == 70
RescueThreshold == 80

\* content.includes(needle)
Includes(content, needle) ==
    \E i \in 1..(Len(content) - Len(needle) + 1) :
        SubSeq(content, i, i + Len(needle) - 1) = needle

\* U+5B8C U+6574 and U+4E0D U+5B8C U+6574
TextComplete == <<"wan2", "zheng">>
TextIncomplete == <<"bu2", "wan2", "zheng">>

\* what llm.sendMessage resolves to: success false (unreachable, error
\* status, timeout), or success true with a content that JSON.parse accepts
\* as {isComplete, confidence, ...} or rejects
OracleFailure ==
    [success |-> FALSE, json |-> FALSE, isComplete |-> FALSE, confidence |-> 0,
     content |-> <<>>]
OracleJson(isComplete, confidence) ==
    [success |-> TRUE, json |-> TRUE, isComplete |-> isComplete,
     confidence |-> confidence, content |-> <<>>]
OracleText(content) ==
    [success |-> TRUE, json |-> FALSE, isComplete |-> FALSE, confidence |-> 0,
     content |-> content]

\* a reply that is not JSON judged by its words with full confidence
LlmResult_TrustText(res) ==
    IF res.success
    THEN IF res.json
         THEN [valid |-> res.isComplete /\ res.confidence > LlmValidThreshold,
               confidence |-> res.confidence,
               analysis |-> "json"]
         ELSE [valid |-> Includes(res.content, TextComplete)
                         /\ ~Includes(res.content, TextIncomplete),
               confidence |-> 100,
               analysis |-> "text"]
    ELSE [valid |-> FALSE, confidence |-> 0, analysis |-> "llmFailed"]

\* the object checkIntegrityByLLM returns for a resolved sendMessage
LlmResult(res) ==
    IF res.success
    THEN IF res.json
         THEN [valid |-> res.isComplete
                         /\ res.confidence > LlmValidThreshold,
               confidence |-> res.confidence,
               analysis |-> "json"]
         ELSE [valid |-> Includes(res.content, TextComplete)
                         /\ ~Includes(res.content, TextIncomplete),
               confidence |-> 50,
               analysis |-> "text"]
    ELSE [valid |-> FALSE, confidence |-> 0, analysis |-> "llmFailed"]

\* the object of the outer catch: readFile or parseNovel threw
LlmException == [valid |-> FALSE, confidence |-> 0, analysis |-> "llmException"]

(***************************************************************************)
(* The novel files of the model                                            *)
(***************************************************************************)
MaxPreamble == 1
MaxStubs == 1
MaxDocChapters == 11

\* a content line as long as BodyLength, indented by two spaces
BodyLength == 250
StubLength == 60
BodyLine(n) == <<" ", " ">> \o Repeat("w", n)

\* "di <k> zhang"
TitleLine(k) == <<"di">> \o DecimalDigits(k) \o <<"zhang">>

EndingText(ending) ==
    CASE ending = "plain" -> <<>>
      [] ending = "dots" -> <<".", ".", ".">>
      [] ending = "tbc" -> <<"wei", "wan2", "dai", "xu">>

\* pre lines before any title, stubs chapters too short to be kept, then n
\* chapters of one long line and, with tail, a final chapter of one short
\* line; the last line of the last chapter ends with the ending
DocLines(shape) ==
    [i \in 1..shape.pre |-> Repeat("w", 30)]
    \o [i \in 1..(2 * shape.stubs) |->
           IF i % 2 = 1 THEN <<"yi", "dun", "w">> ELSE BodyLine(StubLength)]
    \o [i \in 1..(2 * shape.n) |->
           IF i % 2 = 1 THEN TitleLine((i + 1) \div 2)
           ELSE IF i = 2 * shape.n /\ ~shape.tail
                THEN BodyLine(BodyLength) \o EndingText(shape.ending)
                ELSE BodyLine(BodyLength)]
    \o (IF shape.tail
        THEN <<TitleLine(shape.n + 1),
               BodyLine(StubLength) \o EndingText(shape.ending)>>
        ELSE <<>>)

DocShapes ==
    [pre : 0..MaxPreamble, stubs : 0..MaxStubs, n : 0..MaxDocChapters,
     tail : BOOLEAN, ending : {"plain", "dots", "tbc"}]

FileSet ==
    {AbsentFile, UnreadableFile}
    \cup {TextFile(JoinLines(DocLines(shape))) : shape \in DocShapes}

\* bookInfo.wordCount: null, "1 qian" (1000), "100 wan" (1000000)
DeclaredWordCounts ==
    {<<>>, <<<<"1", "qian">>>>, <<<<"1", "0", "0", "wan">>>>}

ConfidenceSet == {0, 50, 70, 71, 79, 80, 81, 100, 120}

TextReplySet ==
    {<<"w">>, <<"w", "wan2", "zheng">>, <<"bu2", "wan2", "zheng", "w">>}

(***************************************************************************)
(* checkNovelIntegrity                                                     *)
(***************************************************************************)
Init ==
    /\ file \in FileSet
    /\ bookInfo \in [wordCount : DeclaredWordCounts]
    /\ useLLM \in BOOLEAN
    /\ pc = "entry"
    /\ scriptCheck = <<>>
    /\ result = <<>>
    /\ llmCheck = <<>>
    /\ verdict = <<>>
    /\ oracleRequests = 0
    /\ meta = <<>>
    /\ NumIdle
    /\ SegIdle
    /\ WcIdle
    /\ EncIdle
    /\ TtlIdle
    /\ SavIdle
    /\ WsIdle
    /\ NvIdle

\* only the first conjunct: the threshold of checkIntegrityByLLM alone
Rescues_WithoutThreshold(llm) == llm.valid

\* llmCheck.valid && llmCheck.confidence > 0.8
Rescues(llm) == llm.valid /\ llm.confidence > RescueThreshold

Return(v) ==
    /\ verdict' = <<v>>
    /\ pc' = "done"
    /\ UNCHANGED <<file, bookInfo, useLLM, scriptCheck, result, llmCheck,
                   oracleRequests, meta, notChk>>

\* if (!exists) return {exists: false, valid: false, null, null}
ReturnAbsent ==
    /\ pc = "entry"
    /\ file.state = "absent"
    /\ Return([exists |-> FALSE, valid |-> FALSE, scriptCheck |-> <<>>,
               llmCheck |-> <<>>])

\* the script check started without looking whether the file exists
RunScriptCheck_Unguarded ==
    /\ pc = "entry"
    /\ scriptCheck' = <<checkIntegrityByScript(file, bookInfo)>>
    /\ pc' = "scripted"
    /\ UNCHANGED <<file, bookInfo, useLLM, result, llmCheck, verdict,
                   oracleRequests, meta, notChk>>

\* const scriptCheck = await checkIntegrityByScript(filePath, bookInfo)
RunScriptCheck ==
    /\ pc = "entry"
    /\ file.state # "absent"
    /\ scriptCheck' = <<checkIntegrityByScript(file, bookInfo)>>
    /\ pc' = "scripted"
    /\ UNCHANGED <<file, bookInfo, useLLM, result, llmCheck, verdict,
                   oracleRequests, meta, notChk>>

\* scriptCheck.valid, useLLM false: llmCheck stays null
ReturnValidWithoutLLM ==
    /\ pc = "scripted"
    /\ scriptCheck[1].valid
    /\ ~useLLM
    /\ Return([exists |-> TRUE, valid |-> TRUE, scriptCheck |-> scriptCheck,
               llmCheck |-> <<>>])

\* the final return: script check failed and useLLM is false
ReturnInvalidWithoutLLM ==
    /\ pc = "scripted"
    /\ ~scriptCheck[1].valid
    /\ ~useLLM
    /\ Return([exists |-> TRUE, valid |-> FALSE, scriptCheck |-> scriptCheck,
               llmCheck |-> <<>>])

\* checkIntegrityByLLM up to sendMessage: fs.readFile throws on an unreadable
\* file and parseNovel throws on an empty text; the outer catch returns
LLMPrepareThrows ==
    /\ pc = "scripted"
    /\ useLLM
    /\ file.state = "unreadable" \/ file.content = <<>>
    /\ llmCheck' = <<LlmException>>
    /\ pc' = "llmReturned"
    /\ UNCHANGED <<file, bookInfo, useLLM, scriptCheck, result, verdict,
                   oracleRequests, meta, notChk>>

\* await llm.sendMessage(...): the request is on its way
LLMSendMessage ==
    /\ pc = "scripted"
    /\ useLLM
    /\ file.state = "ok" /\ file.content # <<>>
    /\ oracleRequests' = oracleRequests + 1
    /\ pc' = "awaiting"
    /\ UNCHANGED <<file, bookInfo, useLLM, scriptCheck, result, llmCheck,
                   verdict, meta, notChk>>

\* the request fails: network error, error status, timeout of the client
OracleFails ==
    /\ pc = "awaiting"
    /\ result' = <<OracleFailure>>
    /\ llmCheck' = <<LlmResult(OracleFailure)>>
    /\ pc' = "llmReturned"
    /\ UNCHANGED <<file, bookInfo, useLLM, scriptCheck, verdict,
                   oracleRequests, meta, notChk>>

\* the reply parses as JSON
OracleRepliesJson ==
    /\ pc = "awaiting"
    /\ \E isComplete \in BOOLEAN, confidence \in ConfidenceSet :
          /\ result' = <<OracleJson(isComplete, confidence)>>
          /\ llmCheck' = <<LlmResult(OracleJson(isComplete, confidence))>>
    /\ pc' = "llmReturned"
    /\ UNCHANGED <<file, bookInfo, useLLM, scriptCheck, verdict,
                   oracleRequests, meta, notChk>>

\* the reply does not parse as JSON
OracleRepliesText ==
    /\ pc = "awaiting"
    /\ \E content \in TextReplySet :
          /\ result' = <<OracleText(content)>>
          /\ llmCheck' = <<LlmResult(OracleText(content))>>
    /\ pc' = "llmReturned"
    /\ UNCHANGED <<file, bookInfo, useLLM, scriptCheck, verdict,
                   oracleRequests, meta, notChk>>

\* the verdict of the oracle taken over
ReturnValidWithLLM_Veto ==
    /\ pc = "llmReturned"
    /\ scriptCheck[1].valid
    /\ Return([exists |-> TRUE, valid |-> llmCheck[1].valid,
               scriptCheck |-> scriptCheck, llmCheck |-> llmCheck])

\* script check passed: valid is true, llmCheck is attached
ReturnValidWithLLM ==
    /\ pc = "llmReturned"
    /\ scriptCheck[1].valid
    /\ Return([exists |-> TRUE, valid |-> TRUE, scriptCheck |-> scriptCheck,
               llmCheck |-> llmCheck])

\* if (llmCheck.valid && llmCheck.confidence > 0.8) return valid: true
ReturnRescued ==
    /\ pc = "llmReturned"
    /\ ~scriptCheck[1].valid
    /\ Rescues(llmCheck[1])
    /\ Return([exists |-> TRUE, valid |-> TRUE, scriptCheck |-> scriptCheck,
               llmCheck |-> llmCheck])

\* the record of the oracle dropped from the verdict
ReturnNotRescued_DropsLlmCheck ==
    /\ pc = "llmReturned"
    /\ ~scriptCheck[1].valid
    /\ ~Rescues(llmCheck[1])
    /\ Return([exists |-> TRUE, valid |-> FALSE, scriptCheck |-> scriptCheck,
               llmCheck |-> <<>>])

\* the final return reached only after a reply of the oracle
ReturnNotRescued_NeedsReply ==
    /\ pc = "llmReturned"
    /\ ~scriptCheck[1].valid
    /\ ~Rescues(llmCheck[1])
    /\ result # <<>> /\ result[1].success
    /\ Return([exists |-> TRUE, valid |-> FALSE, scriptCheck |-> scriptCheck,
               llmCheck |-> llmCheck])

ReturnNotRescued ==
    /\ pc = "llmReturned"
    /\ ~scriptCheck[1].valid
    /\ ~Rescues(llmCheck[1])
    /\ Return([exists |-> TRUE, valid |-> FALSE, scriptCheck |-> scriptCheck,
               llmCheck |-> llmCheck])

\* the integrity object with the llmCheck of the verdict stored whole
Integrity_WholeLlmCheck(checkResult) ==
    [valid |-> checkResult.valid,
     scriptCheck |-> IF checkResult.scriptCheck = <<>> THEN <<>>
                     ELSE checkResult.scriptCheck[1].stats,
     llmCheck |-> checkResult.llmCheck]

\* the integrity object saveNovelMeta builds: valid, the stats of the script
\* check ({} is <<>>) and the confidence and analysis of the oracle or null
Integrity(checkResult) ==
    [valid |-> checkResult.valid,
     scriptCheck |-> IF checkResult.scriptCheck = <<>> THEN <<>>
                     ELSE checkResult.scriptCheck[1].stats,
     llmCheck |-> IF checkResult.llmCheck = <<>> THEN <<>>
                  ELSE <<[confidence |-> checkResult.llmCheck[1].confidence,
                          analysis |-> checkResult.llmCheck[1].analysis]>>]

\* await saveNovelMeta(bookInfo, checkResult): writeJson of the meta object,
\* whose values (numbers, strings, booleans, null) JSON keeps as they are
SaveNovelMeta ==
    /\ pc = "done"
    /\ meta' = <<[integrity |-> Integrity(verdict[1])]>>
    /\ pc' = "saved"
    /\ UNCHANGED <<file, bookInfo, useLLM, scriptCheck, result, llmCheck,
                   verdict, oracleRequests, notChk>>

Next ==
    \/ ReturnAbsent
    \/ RunScriptCheck
    \/ ReturnValidWithoutLLM
    \/ ReturnInvalidWithoutLLM
    \/ LLMPrepareThrows
    \/ LLMSendMessage
    \/ OracleFails
    \/ OracleRepliesJson
    \/ OracleRepliesText
    \/ ReturnValidWithLLM
    \/ ReturnRescued
    \/ ReturnNotRescued
    \/ SaveNovelMeta

Spec == Init /\ [][Next]_vars

\* the steps of checkNovelIntegrity and saveNovelMeta other than the script
\* check
Continue ==
    \/ ReturnAbsent
    \/ ReturnValidWithoutLLM
    \/ ReturnInvalidWithoutLLM
    \/ LLMPrepareThrows
    \/ LLMSendMessage
    \/ OracleFails
    \/ OracleRepliesJson
    \/ OracleRepliesText
    \/ ReturnValidWithLLM
    \/ ReturnRescued
    \/ ReturnNotRescued
    \/ SaveNovelMeta

\* RunScriptCheck can be taken exactly in these states: it constrains the
\* next state by assignments only
ScriptCheckPending == pc = "entry" /\ file.state # "absent"

\* Every step of the function is awaited in sequence and the request to the
\* oracle is answered or fails, at the latest by the timeout of the client:
\* a step that can be taken is taken.  The fairness of RunScriptCheck is
\* weak fairness written out with its guard for ENABLED.
FairSpec ==
    /\ Spec
    /\ WF_vars(Continue)
    /\ (<>[]ScriptCheckPending => []<><<RunScriptCheck>>_vars)

(***************************************************************************)
(* detectEncoding                                                          *)
(***************************************************************************)
\* Math.min(buffer.length, 10000)
SampleWindow == 10000

\* A buffer is kept as pad bytes "A" (0x41) followed by the bytes of rest, so
\* that a buffer longer than the sample window stays small as a value.
PadByte == \h41

BufferLength(b) == b.pad + Len(b.rest)

\* b[i] for 0 <= i < b.length
ByteAt(b, i) == IF i < b.pad THEN PadByte ELSE b.rest[i - b.pad + 1]

\* b[i] === v: b[i] is undefined at and beyond b.length
ByteIs(b, i, v) == i < BufferLength(b) /\ ByteAt(b, i) = v

\* buffer[0] === 0xef && buffer[1] === 0xbb && buffer[2] === 0xbf
Utf8Bom(b) == ByteIs(b, 0, \hEF) /\ ByteIs(b, 1, \hBB) /\ ByteIs(b, 2, \hBF)

\* the two UTF-16 byte order marks taken for one another
Utf16leBom_Swapped(b) == ByteIs(b, 0, \hFE) /\ ByteIs(b, 1, \hFF)

\* buffer[0] === 0xff && buffer[1] === 0xfe
Utf16leBom(b) == ByteIs(b, 0, \hFF) /\ ByteIs(b, 1, \hFE)

\* buffer[0] === 0xfe && buffer[1] === 0xff
Utf16beBom(b) == ByteIs(b, 0, \hFE) /\ ByteIs(b, 1, \hFF)

\* sample.length
SampleLength(b) ==
    IF BufferLength(b) < SampleWindow THEN BufferLength(b) ELSE SampleWindow

\* the GBK ranges of a pair of bytes
GbkPair(byte1, byte2) ==
    \/ byte1 >= \h81 /\ byte1 <= \hFE /\ byte2 >= \h40 /\ byte2 <= \hFE
    \/ byte1 >= \hA1 /\ byte1 <= \hF7 /\ byte2 >= \hA1 /\ byte2 <= \hFE

\* the lead bytes of UTF-8 Chinese
Utf8Lead(byte1) == byte1 >= \hE4 /\ byte1 <= \hE9

\* GBK wins as soon as it has more pairs
GbkWins_Majority(gbk, utf8) == gbk > utf8

\* gbkScore > utf8Score * 1.5
GbkWins(gbk, utf8) == 2 * gbk > 3 * utf8

MaxBufLen == 4

EncByteSet == {\h20, \hB0, \hE4, \hEF, \hBB, \hBF, \hFF, \hFE}

\* bytes at the ends of the ranges
EncBoundaryBytes ==
    {\h3F, \h40, \h80, \h81, \hE3, \hE4, \hE9, \hEA, \hFE, \hFF}

\* buffers around the factor 1.5: three GBK pairs against two and one UTF-8
\* lead bytes
EncRatioBuffers ==
    {<<\hB0, \hB0, \hE4, \hE4, \h20>>, <<\hB0, \hB0, \hB0, \hE4, \h20>>}

\* GBK bytes around the end of the sample window
EncTailSet == {<<\hB0>>, <<\hB0, \hB0>>, <<\hB0, \hB0, \hB0>>}

BufferSet ==
    {[pad |-> 0, rest |-> r] :
        r \in SeqsUpTo(EncByteSet, MaxBufLen)
              \cup [1..2 -> EncBoundaryBytes] \cup EncRatioBuffers}
    \cup [pad : (SampleWindow - 2)..SampleWindow, rest : EncTailSet]

EncInit ==
    /\ buffer \in BufferSet
    /\ encPc = "entry"
    /\ encI = 0
    /\ gbkScore = 0
    /\ utf8Score = 0
    /\ detectedEncoding = <<>>
    /\ NumIdle
    /\ SegIdle
    /\ ChkIdle
    /\ WcIdle
    /\ TtlIdle
    /\ SavIdle
    /\ WsIdle
    /\ NvIdle

\* return 'utf-8'
ReturnUtf8Bom ==
    /\ encPc = "entry"
    /\ Utf8Bom(buffer)
    /\ detectedEncoding' = <<"utf-8">>
    /\ encPc' = "done"
    /\ UNCHANGED <<buffer, encI, gbkScore, utf8Score, notEnc>>

\* return 'utf-16le'
ReturnUtf16leBom ==
    /\ encPc = "entry"
    /\ ~Utf8Bom(buffer)
    /\ Utf16leBom(buffer)
    /\ detectedEncoding' = <<"utf-16le">>
    /\ encPc' = "done"
    /\ UNCHANGED <<buffer, encI, gbkScore, utf8Score, notEnc>>

\* return 'utf-16be'
ReturnUtf16beBom ==
    /\ encPc = "entry"
    /\ ~Utf8Bom(buffer)
    /\ ~Utf16leBom(buffer)
    /\ Utf16beBom(buffer)
    /\ detectedEncoding' = <<"utf-16be">>
    /\ encPc' = "done"
    /\ UNCHANGED <<buffer, encI, gbkScore, utf8Score, notEnc>>

\* const sample = buffer.slice(...); let gbkScore = 0; let utf8Score = 0; i = 0
BeginSample ==
    /\ encPc = "entry"
    /\ ~Utf8Bom(buffer)
    /\ ~Utf16leBom(buffer)
    /\ ~Utf16beBom(buffer)
    /\ encPc' = "loop"
    /\ encI' = 0
    /\ gbkScore' = 0
    /\ utf8Score' = 0
    /\ UNCHANGED <<buffer, detectedEncoding, notEnc>>

\* one iteration of for (let i = 0; i < sample.length - 1; i++)
ScoreWindow ==
    /\ encPc = "loop"
    /\ encI < SampleLength(buffer) - 1
    /\ LET byte1 == ByteAt(buffer, encI)
           byte2 == ByteAt(buffer, encI + 1)
       IN  /\ gbkScore' = IF GbkPair(byte1, byte2) THEN gbkScore + 1
                          ELSE gbkScore
           /\ utf8Score' = IF Utf8Lead(byte1) THEN utf8Score + 1
                           ELSE utf8Score
    /\ encI' = encI + 1
    /\ UNCHANGED <<buffer, encPc, detectedEncoding, notEnc>>

\* if (gbkScore > utf8Score * 1.5) return 'gbk'
ReturnGbk ==
    /\ encPc = "loop"
    /\ ~(encI < SampleLength(buffer) - 1)
    /\ GbkWins(gbkScore, utf8Score)
    /\ detectedEncoding' = <<"gbk">>
    /\ encPc' = "done"
    /\ UNCHANGED <<buffer, encI, gbkScore, utf8Score, notEnc>>

\* return null
ReturnNull ==
    /\ encPc = "loop"
    /\ ~(encI < SampleLength(buffer) - 1)
    /\ ~GbkWins(gbkScore, utf8Score)
    /\ detectedEncoding' = <<>>
    /\ encPc' = "done"
    /\ UNCHANGED <<buffer, encI, gbkScore, utf8Score, notEnc>>

EncNext ==
    \/ ReturnUtf8Bom
    \/ ReturnUtf16leBom
    \/ ReturnUtf16beBom
    \/ BeginSample
    \/ ScoreWindow
    \/ ReturnGbk
    \/ ReturnNull

SpecEnc == EncInit /\ [][EncNext]_vars

(***************************************************************************)
(* The workspace manager: createWorkspace, deleteWorkspace, rebuildIndex   *)
(***************************************************************************)
MaxWsSeq == 3
MaxWsClock == 1

WsTitles == {"A", "B"}

WsInit ==
    /\ wsIndexFile = <<>>
    /\ wsDirs = {}
    /\ wsClock = 0
    /\ wsPc = "ready"
    /\ wsArg = 0
    /\ wsDirName = <<>>
    /\ wsLast = [op |-> "none", arg |-> 0, existed |-> FALSE, ret |-> "none"]
    /\ NumIdle
    /\ SegIdle
    /\ ChkIdle
    /\ WcIdle
    /\ EncIdle
    /\ TtlIdle
    /\ SavIdle
    /\ NvIdle

\* the function without the key k
WithoutKey(f, k) == [s \in (DOMAIN f) \ {k} |-> f[s]]

\* the function with the key k set to v
WithKey(f, k, v) == [s \in (DOMAIN f) \cup {k} |-> IF s = k THEN v ELSE f[s]]

\* return index || { nextSeq: 1, books: {} }
readIndex ==
    IF wsIndexFile = <<>> THEN [nextSeq |-> 1, books |-> <<>>]
    ELSE wsIndexFile[1]

\* `${seq}_${timestamp}_${safeTitle}`
generateDirName(seq, title) == [seq |-> seq, timestamp |-> wsClock, title |-> title]

\* the meta files of the directories that have one, by ascending seq
listWorkspaces == wsDirs

\* a numeric argument: the entry of the index, else a directory whose meta
\* carries the seq, else null
resolveBookIdIn(indexFile, dirs, seq) ==
    LET index == IF indexFile = <<>> THEN [nextSeq |-> 1, books |-> <<>>]
                 ELSE indexFile[1]
        found == {w \in dirs : w.seq = seq}
    IN  IF seq \in DOMAIN index.books THEN <<index.books[seq].dirName>>
        ELSE IF found # {}
        THEN <<(CHOOSE w \in found : \A v \in found :
                    w.id.timestamp <= v.id.timestamp).id>>
        ELSE <<>>

resolveBookId(seq) == resolveBookIdIn(wsIndexFile, wsDirs, seq)

\* readJson(<dirName>/meta.json): null when the file does not exist
getMetaOfDir(dirs, dirName) ==
    LET found == {w \in dirs : w.id = dirName}
    IN  IF found = {} THEN <<>> ELSE <<CHOOSE w \in found : TRUE>>

getMetaIn(indexFile, dirs, seq) ==
    LET dirName == resolveBookIdIn(indexFile, dirs, seq)
    IN  IF dirName = <<>> THEN <<>> ELSE getMetaOfDir(dirs, dirName[1])

getMeta(seq) == getMetaIn(wsIndexFile, wsDirs, seq)

workspaceExists(seq) ==
    IF resolveBookId(seq) = <<>> THEN FALSE ELSE getMeta(seq) # <<>>

wsKept == <<wsPc, wsArg, wsDirName>>

\* createWorkspace(bookInfo): the directory with its meta file, then the index
createWorkspace ==
    /\ wsPc = "ready"
    /\ readIndex.nextSeq <= MaxWsSeq
    /\ \E title \in WsTitles :
          LET index   == readIndex
              seq     == index.nextSeq
              dirName == generateDirName(seq, title)
          IN  /\ wsDirs' = {w \in wsDirs : w.id # dirName}
                              \cup {[id |-> dirName, seq |-> seq]}
              /\ wsIndexFile' =
                    <<[nextSeq |-> seq + 1,
                       books |-> WithKey(index.books, seq,
                                         [dirName |-> dirName,
                                          title |-> title])]>>
              /\ wsLast' = [op |-> "create", arg |-> seq, existed |-> FALSE,
                            ret |-> "created"]
    /\ UNCHANGED <<wsClock, wsKept, notWs>>

\* const dirName = await resolveBookId(seqOrId);
\* if (!dirName) throw new Error(...)
deleteWorkspaceThrows ==
    /\ wsPc = "ready"
    /\ \E seq \in 1..MaxWsSeq :
          /\ resolveBookId(seq) = <<>>
          /\ wsLast' = [op |-> "delete", arg |-> seq, existed |-> FALSE,
                        ret |-> "threw"]
    /\ UNCHANGED <<wsIndexFile, wsDirs, wsClock, wsKept, notWs>>

\* await remove(workspacePath)
deleteWorkspaceRemove ==
    /\ wsPc = "ready"
    /\ \E seq \in 1..MaxWsSeq :
          /\ resolveBookId(seq) # <<>>
          /\ wsArg' = seq
          /\ wsDirName' = resolveBookId(seq)
          /\ wsDirs' = {w \in wsDirs : w.id # resolveBookId(seq)[1]}
          /\ wsLast' = [op |-> "delete", arg |-> seq,
                        existed |-> workspaceExists(seq), ret |-> "running"]
    /\ wsPc' = "removed"
    /\ UNCHANGED <<wsIndexFile, wsClock, notWs>>

\* the index as deleteWorkspace leaves it: the entry goes when the meta file
\* of the directory can still be read and carries a seq
IndexAfterDelete(indexFile, dirs, dirName) ==
    LET metaRead == getMetaOfDir(dirs, dirName)
    IN  IF metaRead # <<>> /\ metaRead[1].seq # 0
        THEN LET index == IF indexFile = <<>>
                          THEN [nextSeq |-> 1, books |-> <<>>]
                          ELSE indexFile[1]
             IN  <<[index EXCEPT
                       !.books = WithoutKey(index.books, metaRead[1].seq)]>>
        ELSE indexFile

\* const meta = await getMeta(dirName); if (meta && meta.seq) { ... delete
\* index.books[meta.seq]; writeIndex }; return true
deleteWorkspaceReturn ==
    /\ wsPc = "removed"
    /\ wsIndexFile' = IndexAfterDelete(wsIndexFile, wsDirs, wsDirName[1])
    /\ wsLast' = [wsLast EXCEPT !.ret = "true"]
    /\ wsPc' = "ready"
    /\ wsArg' = 0
    /\ wsDirName' = <<>>
    /\ UNCHANGED <<wsDirs, wsClock, notWs>>

\* rebuildIndex(): an index made of the meta files found; every meta file
\* written by createWorkspace carries a seq, so no seq is handed out here
rebuildIndex ==
    /\ wsPc = "ready"
    /\ LET seqs   == {w.seq : w \in listWorkspaces}
           maxSeq == IF seqs = {} THEN 0 ELSE SetMax(seqs)
       IN  wsIndexFile' =
              <<[nextSeq |-> maxSeq + 1,
                 books |-> [s \in seqs |->
                    LET last == CHOOSE w \in listWorkspaces :
                                   /\ w.seq = s
                                   /\ \A v \in listWorkspaces :
                                         v.seq = s =>
                                            v.id.timestamp <= w.id.timestamp
                    IN  [dirName |-> last.id, title |-> last.id.title]]]>>
    /\ wsLast' = [op |-> "rebuild", arg |-> 0, existed |-> FALSE,
                  ret |-> "rebuilt"]
    /\ UNCHANGED <<wsDirs, wsClock, wsKept, notWs>>

\* a second passes
WsClockTick ==
    /\ wsPc = "ready"
    /\ wsClock < MaxWsClock
    /\ wsClock' = wsClock + 1
    /\ UNCHANGED <<wsIndexFile, wsDirs, wsKept, wsLast, notWs>>

WsNext ==
    \/ createWorkspace
    \/ deleteWorkspaceThrows
    \/ deleteWorkspaceRemove
    \/ deleteWorkspaceReturn
    \/ rebuildIndex
    \/ WsClockTick

SpecWorkspace == WsInit /\ [][WsNext]_vars

(***************************************************************************)
(* The novel manager: createNovelDir, deleteNovel, rebuildNovelIndex, run  *)
(* by two callers whose file operations interleave                         *)
(***************************************************************************)
MaxNovSeq == 2

NovCallers == {1, 2}
NovTitles == {"A", "B"}

\* readdir lists the directories by name: the rank of a title in that order
TitleRank(title) == IF title = "A" THEN 1 ELSE 2

EmptyNovelIndex == [nextSeq |-> 1, novels |-> <<>>]

\* the locals of a caller between two calls; ret is what its last call returned
NoLocals == [index |-> EmptyNovelIndex, seq |-> 0, title |-> "A", ret |-> "none"]

NvInit ==
    /\ nvIndexFile = <<>>
    /\ nvDirs = {}
    /\ nvPc = [p \in NovCallers |-> "ready"]
    /\ nvLocal = [p \in NovCallers |-> NoLocals]
    /\ NumIdle
    /\ SegIdle
    /\ ChkIdle
    /\ WcIdle
    /\ EncIdle
    /\ TtlIdle
    /\ SavIdle
    /\ WsIdle

\* return index || { nextSeq: 1, novels: {} }
readNovelIndex == IF nvIndexFile = <<>> THEN EmptyNovelIndex ELSE nvIndexFile[1]

\* `${seq}_${safeTitle}`
generateNovelDirName(seq, title) == [seq |-> seq, title |-> title]

\* the meta files of the novel directories
listClassicNovels == nvDirs

\* the last directory, in the order of readdir, whose meta carries seq
LastWithSeq(dirs, seq) ==
    CHOOSE n \in dirs :
        /\ n.seq = seq
        /\ \A m \in dirs :
              m.seq = seq => TitleRank(m.title) <= TitleRank(n.title)

\* the first novel, in the order of listClassicNovels, whose meta carries seq
FirstWithSeq(dirs, seq) ==
    CHOOSE n \in dirs :
        /\ n.seq = seq
        /\ \A m \in dirs :
              m.seq = seq => TitleRank(n.title) <= TitleRank(m.title)

\* getNovelDir(seq): the entry of the index, else a directory found by
\* scanning, else null
getNovelDir(seq) ==
    IF seq \in DOMAIN readNovelIndex.novels
    THEN <<readNovelIndex.novels[seq].dirName>>
    ELSE IF \E n \in listClassicNovels : n.seq = seq
    THEN <<FirstWithSeq(listClassicNovels, seq).dirName>>
    ELSE <<>>

NvReturn(p, ret) ==
    /\ nvPc' = [nvPc EXCEPT ![p] = "ready"]
    /\ nvLocal' = [nvLocal EXCEPT ![p] = [NoLocals EXCEPT !.ret = ret]]

\* createNovelDir: const index = await readIndex(); const seq = index.nextSeq
createNovelDirRead ==
    \E p \in NovCallers, title \in NovTitles :
        /\ nvPc[p] = "ready"
        /\ readNovelIndex.nextSeq <= MaxNovSeq
        /\ nvLocal' = [nvLocal EXCEPT ![p] = [index |-> readNovelIndex,
                                              seq |-> readNovelIndex.nextSeq,
                                              title |-> title,
                                              ret |-> "none"]]
        /\ nvPc' = [nvPc EXCEPT ![p] = "createMeta"]
        /\ UNCHANGED <<nvIndexFile, nvDirs, notNv>>

\* createNovelDir: ensureDir(novelDir) ... writeJson(meta.json, meta)
createNovelDirMeta ==
    \E p \in NovCallers :
        /\ nvPc[p] = "createMeta"
        /\ LET dirName == generateNovelDirName(nvLocal[p].seq, nvLocal[p].title)
           IN  nvDirs' = {n \in nvDirs : n.dirName # dirName}
                            \cup {[dirName |-> dirName, seq |-> nvLocal[p].seq,
                                   title |-> nvLocal[p].title]}
        /\ nvPc' = [nvPc EXCEPT ![p] = "createWrite"]
        /\ UNCHANGED <<nvIndexFile, nvLocal, notNv>>

\* createNovelDir: index.nextSeq = seq + 1; index.novels[seq] = {...};
\* await writeIndex(index)
createNovelDirWrite ==
    \E p \in NovCallers :
        /\ nvPc[p] = "createWrite"
        /\ LET l == nvLocal[p]
           IN  nvIndexFile' =
                  <<[nextSeq |-> l.seq + 1,
                     novels |-> WithKey(l.index.novels, l.seq,
                                   [dirName |-> generateNovelDirName(l.seq, l.title),
                                    title |-> l.title])]>>
        /\ NvReturn(p, "created")
        /\ UNCHANGED <<nvDirs, notNv>>

\* deleteNovel: if (!novelDir) return false
deleteNovelMissing ==
    \E p \in NovCallers, seq \in 1..MaxNovSeq :
        /\ nvPc[p] = "ready"
        /\ getNovelDir(seq) = <<>>
        /\ NvReturn(p, "false")
        /\ UNCHANGED <<nvIndexFile, nvDirs, notNv>>

\* deleteNovel: await fs.rm(novelDir, {recursive, force})
deleteNovelRm ==
    \E p \in NovCallers, seq \in 1..MaxNovSeq :
        /\ nvPc[p] = "ready"
        /\ getNovelDir(seq) # <<>>
        /\ nvDirs' = {n \in nvDirs : n.dirName # getNovelDir(seq)[1]}
        /\ nvLocal' = [nvLocal EXCEPT ![p] = [NoLocals EXCEPT !.seq = seq]]
        /\ nvPc' = [nvPc EXCEPT ![p] = "deleteRead"]
        /\ UNCHANGED <<nvIndexFile, notNv>>

\* deleteNovel: const index = await readIndex()
deleteNovelRead ==
    \E p \in NovCallers :
        /\ nvPc[p] = "deleteRead"
        /\ nvLocal' = [nvLocal EXCEPT ![p].index = readNovelIndex]
        /\ nvPc' = [nvPc EXCEPT ![p] = "deleteWrite"]
        /\ UNCHANGED <<nvIndexFile, nvDirs, notNv>>

\* deleteNovel: delete index.novels[seq]; await writeIndex(index); return true
deleteNovelWrite ==
    \E p \in NovCallers :
        /\ nvPc[p] = "deleteWrite"
        /\ nvIndexFile' =
              <<[nvLocal[p].index EXCEPT
                    !.novels = WithoutKey(nvLocal[p].index.novels,
                                          nvLocal[p].seq)]>>
        /\ NvReturn(p, "true")
        /\ UNCHANGED <<nvDirs, notNv>>

\* the index rebuildNovelIndex makes of the meta files: every meta written by
\* createNovelDir carries a seq, so none is handed out here
RebuiltIndex(dirs) ==
    LET seqs   == {n.seq : n \in dirs}
        maxSeq == IF seqs = {} THEN 0 ELSE SetMax(seqs)
    IN  [nextSeq |-> maxSeq + 1,
         novels |-> [s \in seqs |->
                        [dirName |-> LastWithSeq(dirs, s).dirName,
                         title |-> LastWithSeq(dirs, s).title]]]

\* rebuildNovelIndex: readdir and the meta files
rebuildNovelIndexScan ==
    \E p \in NovCallers :
        /\ nvPc[p] = "ready"
        /\ nvLocal' = [nvLocal EXCEPT ![p] =
                          [NoLocals EXCEPT !.index = RebuiltIndex(nvDirs)]]
        /\ nvPc' = [nvPc EXCEPT ![p] = "rebuildWrite"]
        /\ UNCHANGED <<nvIndexFile, nvDirs, notNv>>

\* rebuildNovelIndex: await writeIndex(index)
rebuildNovelIndexWrite ==
    \E p \in NovCallers :
        /\ nvPc[p] = "rebuildWrite"
        /\ nvIndexFile' = <<nvLocal[p].index>>
        /\ NvReturn(p, "rebuilt")
        /\ UNCHANGED <<nvDirs, notNv>>

NvNext ==
    \/ createNovelDirRead
    \/ createNovelDirMeta
    \/ createNovelDirWrite
    \/ deleteNovelMissing
    \/ deleteNovelRm
    \/ deleteNovelRead
    \/ deleteNovelWrite
    \/ rebuildNovelIndexScan
    \/ rebuildNovelIndexWrite

SpecNovelIndex == NvInit /\ [][NvNext]_vars

(***************************************************************************)
(* Properties of the aggregate statistics (SpecSeg)                        *)
(***************************************************************************)
RECURSIVE SumWordCount(_)
SumWordCount(chs) ==
    IF chs = <<>> THEN 0 ELSE Head(chs).wordCount + SumWordCount(Tail(chs))

\* C9: for the records splitChapters produced, the statistics count the
\* records and total their wordCount; for no record all five aggregates are 0.
C9_AggregateStats ==
    segPc = "done" =>
        LET nd == novelData[1] IN
        /\ nd.chapters = chapters
        /\ nd.chapterCount = Len(chapters)
        /\ nd.chapterStats.total = Len(chapters)
        /\ nd.chapterStats.totalWords = SumWordCount(chapters)
        /\ (chapters = <<>> =>
               nd.chapterStats = [total |-> 0, totalWords |-> 0, avgWords |-> 0,
                                  maxWords |-> 0, minWords |-> 0])

\* two records with different word counts have been aggregated
C9_Witness ==
    /\ segPc = "done"
    /\ Len(chapters) = 2
    /\ chapters[1].wordCount # chapters[2].wordCount
    /\ novelData[1].chapterStats.totalWords
          = chapters[1].wordCount + chapters[2].wordCount

(***************************************************************************)
(* Properties of checkNovelIntegrity (Spec)                                *)
(***************************************************************************)
Done == pc = "done"

\* the oracle call failed or its reply was malformed
OracleFailed == result # <<>> /\ (~result[1].success \/ ~result[1].json)

\* the file is unreadable or shorter than MinFileLength characters
DecodeError ==
    \/ file.state = "unreadable"
    \/ file.state = "ok" /\ Len(file.content) < MinFileLength

\* C1: when the script check of an existing document is valid, the verdict
\* is valid whatever the oracle did, and the oracle's record is only attached.
C1_MonotonicTrust ==
    (Done /\ scriptCheck # <<>> /\ scriptCheck[1].valid) =>
        /\ verdict[1].exists
        /\ verdict[1].valid
        /\ verdict[1].scriptCheck = scriptCheck
        /\ verdict[1].llmCheck = llmCheck

\* valid script check, the oracle answered "not complete" with confidence 1.0
C1_Witness ==
    /\ Done
    /\ scriptCheck # <<>>
    /\ scriptCheck[1].valid
    /\ result = <<OracleJson(FALSE, 100)>>
    /\ verdict[1].valid
    /\ verdict[1].llmCheck # <<>>

\* C2: script check invalid and the oracle answered with a parsable reply:
\* the verdict is valid exactly when isComplete and confidence > 0.8.
C2_RescueThreshold ==
    (Done /\ scriptCheck # <<>> /\ ~scriptCheck[1].valid
          /\ result # <<>> /\ result[1].success /\ result[1].json) =>
        verdict[1].valid = (result[1].isComplete
                            /\ result[1].confidence > RescueThreshold)

\* a failing script check rescued at confidence 0.81
C2_Witness ==
    /\ Done
    /\ scriptCheck # <<>>
    /\ ~scriptCheck[1].valid
    /\ result = <<OracleJson(TRUE, 81)>>
    /\ verdict[1].valid

\* C3: when the oracle fails, replies with something that is not JSON, or is
\* not consulted, the verdict's valid is the script check's valid.
C3_GracefulDegradation ==
    (Done /\ scriptCheck # <<>>
          /\ (~useLLM \/ OracleFailed \/ llmCheck = <<LlmException>>)) =>
        /\ verdict # <<>>
        /\ verdict[1].valid = scriptCheck[1].valid

\* a failing script check, a reply that is not JSON but says "complete"
C3_Witness ==
    /\ Done
    /\ scriptCheck # <<>>
    /\ ~scriptCheck[1].valid
    /\ result = <<OracleText(<<"w", "wan2", "zheng">>)>>
    /\ llmCheck[1].valid
    /\ ~verdict[1].valid

\* C4 as stated: after a failed or malformed oracle reply the verdict's
\* llmCheck is null.
C4_AsStated ==
    (Done /\ OracleFailed) => verdict[1].llmCheck = <<>>

\* C4 amended: after a failed oracle call the verdict carries a failure
\* record (valid false, confidence 0), after a reply that is not JSON a
\* record with confidence 0.5; llmCheck is null exactly when the file is
\* absent or useLLM is false.
C4_FailureRecord ==
    Done =>
        /\ (result # <<>> /\ ~result[1].success) =>
              verdict[1].llmCheck =
                 <<[valid |-> FALSE, confidence |-> 0, analysis |-> "llmFailed"]>>
        /\ (result # <<>> /\ result[1].success /\ ~result[1].json) =>
              /\ verdict[1].llmCheck # <<>>
              /\ verdict[1].llmCheck[1].confidence = 50
              /\ verdict[1].llmCheck[1].analysis = "text"
        /\ (verdict[1].llmCheck = <<>>) = (file.state = "absent" \/ ~useLLM)

\* the oracle call failed while the script check had failed too
C4_Witness ==
    /\ Done
    /\ result = <<OracleFailure>>
    /\ ~scriptCheck[1].valid
    /\ verdict[1].llmCheck # <<>>

\* C5: an absent file gives exists false, valid false, with neither the
\* script check nor the oracle run; a valid verdict has exists true.
C5_AbsentFirst ==
    Done =>
        /\ file.state = "absent" =>
              /\ verdict = <<[exists |-> FALSE, valid |-> FALSE,
                              scriptCheck |-> <<>>, llmCheck |-> <<>>]>>
              /\ scriptCheck = <<>>
              /\ oracleRequests = 0
        /\ verdict[1].valid => verdict[1].exists
        /\ verdict[1].exists = (file.state # "absent")

\* an absent file with useLLM set
C5_Witness ==
    /\ Done
    /\ file.state = "absent"
    /\ useLLM
    /\ ~verdict[1].exists

\* C6 as stated: for an unreadable or too short document no verdict is
\* produced and the oracle is not consulted.
C6_AsStated ==
    DecodeError => (verdict = <<>> /\ oracleRequests = 0)

\* C6 amended: an unreadable or too short document gets a verdict with
\* exists true and a failed script check (one issue, empty stats); the oracle
\* is consulted when useLLM is set and the text is readable and not empty, and
\* the verdict is valid exactly when the oracle then rescues it.
C6_DecodeErrorNotFatal ==
    (Done /\ DecodeError) =>
        /\ verdict # <<>>
        /\ verdict[1].exists
        /\ scriptCheck[1].valid = FALSE
        /\ scriptCheck[1].stats = <<>>
        /\ scriptCheck[1].issues
              = IF file.state = "unreadable" THEN <<"parseError">>
                ELSE <<"contentTooShort">>
        /\ (oracleRequests = 1)
              = (useLLM /\ file.state = "ok" /\ file.content # <<>>)
        /\ verdict[1].valid
              = (/\ oracleRequests = 1
                 /\ result[1].success /\ result[1].json
                 /\ result[1].isComplete
                 /\ result[1].confidence > RescueThreshold)

\* a text shorter than MinFileLength rescued by the oracle
C6_Witness ==
    /\ Done
    /\ file.state = "ok"
    /\ file.content # <<>>
    /\ Len(file.content) < MinFileLength
    /\ oracleRequests = 1
    /\ verdict[1].valid

\* the stats of the script check, once it has parsed the novel
ParsedStats ==
    pc = "scripted" /\ scriptCheck[1].stats # <<>>

EmittedChapters == splitChapters(file.content, ParseOptionsDefault)

\* C10 as stated: the totalWords of the script check is the sum of wordCount
\* over the emitted chapter records.
C10_AsStated ==
    ParsedStats =>
        scriptCheck[1].stats[1].totalWords = SumWordCount(EmittedChapters)

\* C10 amended: the totalWords of the script check is the number of
\* characters of the whole text that are not white space; it is at least the
\* sum over the emitted records and greater when a record was emitted, as
\* title lines count too.
C10_WholeTextTotal ==
    ParsedStats =>
        LET total   == scriptCheck[1].stats[1].totalWords
            blank   == Cardinality({i \in 1..Len(file.content) :
                                       file.content[i] \in Whitespace})
            emitted == EmittedChapters
        IN  /\ total = Len(file.content) - blank
            /\ total >= SumWordCount(emitted)
            /\ emitted # <<>> => total > SumWordCount(emitted)

\* a parsed text with a preamble, a dropped chapter and kept chapters
C10_Witness ==
    /\ ParsedStats
    /\ scriptCheck[1].stats[1].chapterCount = MinChapterCount
    /\ file.content[1] = "w"
    /\ Includes(SubSeq(file.content, 1, 40), <<"yi", "dun">>)

(***************************************************************************)
(* Properties of checkIntegrityByScript on a parsed novel (Spec)           *)
(***************************************************************************)
\* the script check has run on a readable text of at least 1000 characters
ScriptedLongText ==
    /\ pc = "scripted"
    /\ file.state = "ok"
    /\ Len(file.content) >= 1000

HasIssue(tag) ==
    /\ scriptCheck # <<>>
    /\ \E i \in 1..Len(scriptCheck[1].issues) : scriptCheck[1].issues[i] = tag

\* C11: for a readable text of at least 1000 characters the issues hold the
\* "too few chapters" entry exactly when fewer than 10 chapters were emitted,
\* and with that entry the script check is not valid.
C11_TooFewChapters ==
    ScriptedLongText =>
        /\ HasIssue("tooFewChapters") = (Len(EmittedChapters) < 10)
        /\ HasIssue("tooFewChapters") => ~scriptCheck[1].valid

\* five emitted chapters and nothing else wrong: the entry is the only issue
C11_Witness ==
    /\ ScriptedLongText
    /\ scriptCheck[1].stats[1].chapterCount = 5
    /\ scriptCheck[1].issues = <<"tooFewChapters">>
    /\ ~scriptCheck[1].valid

\* "..." or U+672A U+5B8C U+5F85 U+7EED at the end of a text
EndsMarked(text) ==
    \/ EndsWith(text, <<".", ".", ".">>)
    \/ EndsWith(text, <<"wei", "wan2", "dai", "xu">>)

\* the content of the final chapter of a text: the lines after its last
\* boundary line, joined and trimmed; <<>> when the text has no boundary line
FinalChapterContent(content) ==
    LET ls         == SplitLines(content)
        boundaries == {i \in 1..Len(ls) : isChapterTitle(ls[i])}
    IN  IF boundaries = {} THEN <<>>
        ELSE <<Trim(JoinLines(SubSeq(ls, SetMax(boundaries) + 1, Len(ls))))>>

\* C12 as stated, for the texts that reach the checks: whenever the final
\* chapter's content ends with one of the two markers the issues hold the
\* truncation warning, whatever the number of chapters and the length of that
\* final chapter.
C12_AsStated ==
    ScriptedLongText =>
        LET final == FinalChapterContent(file.content)
        IN  (final # <<>> /\ EndsMarked(final[1]))
                => HasIssue("possiblyTruncated")

\* C12 amended: for a readable text of at least 1000 characters the warning
\* is raised exactly when the last emitted chapter ends with a marker; a final
\* chapter of at least 100 characters is that chapter, whatever the number of
\* chapters, and a shorter one is dropped before the check.
C12_EmittedTruncation ==
    ScriptedLongText =>
        LET final   == FinalChapterContent(file.content)
            emitted == EmittedChapters
        IN  /\ (final # <<>> /\ Len(final[1]) >= 100 /\ EndsMarked(final[1]))
                  => HasIssue("possiblyTruncated")
            /\ HasIssue("possiblyTruncated")
                  = (/\ emitted # <<>>
                     /\ EndsMarked(emitted[Len(emitted)].content))

\* eleven chapters, the last one ends with U+672A U+5B8C U+5F85 U+7EED: the
\* warning is the only issue
C12_Witness ==
    /\ ScriptedLongText
    /\ EndsWith(file.content, <<"wei", "wan2", "dai", "xu">>)
    /\ scriptCheck[1].stats[1].chapterCount = 11
    /\ scriptCheck[1].issues = <<"possiblyTruncated">>

(***************************************************************************)
(* Properties of the declared word count check (SpecWordCount)             *)
(***************************************************************************)
\* the multiplier table: wan 10^4, qian 10^3, bai wan 10^6, no unit 1
TableMultiplier(unit) ==
    CASE unit = <<"wan">> -> 10000
      [] unit = <<"qian">> -> 1000
      [] unit = <<"bai", "wan">> -> 1000000
      [] OTHER -> 1

\* The declared count of a string by the rule of the claim: the first run of
\* digits and dots is read as a decimal number (up to its second dot), the
\* unit is what follows the run after white space, the product is rounded to
\* the nearest integer; null and a string without a digit or dot give 0.  A
\* run of dots without a digit is not a number (<<>>).
DeclaredCount(w) ==
    IF w = <<>> THEN <<0>>
    ELSE LET s       == w[1]
             numeric == {i \in 1..Len(s) : s[i] \in AsciiDigits \cup {"."}}
         IN  IF numeric = {} THEN <<0>>
             ELSE LET b     == SetMin(numeric)
                      e     == CHOOSE k \in b..Len(s) :
                                   /\ \A j \in b..k : j \in numeric
                                   /\ (k + 1) \notin numeric
                      dots  == {i \in b..e : s[i] = "."}
                      point == IF dots = {} THEN e + 1 ELSE SetMin(dots)
                      again == {i \in dots : i > point}
                      stop  == IF again = {} THEN e ELSE SetMin(again) - 1
                      whole == SubSeq(s, b, point - 1)
                      frac  == SubSeq(s, point + 1, stop)
                      gap   == {i \in (e + 1)..Len(s) : s[i] # " "}
                      u     == IF gap = {} THEN Len(s) + 1 ELSE SetMin(gap)
                      unit  == IF u <= Len(s) /\ s[u] \in {"wan", "qian"}
                               THEN <<s[u]>>
                               ELSE SubSeq(s, u, IF u + 1 <= Len(s) THEN u + 1
                                                 ELSE Len(s))
                      \* the number is (whole frac) / 10^Len(frac)
                      p     == DecimalValue(whole \o frac) * TableMultiplier(unit)
                      q     == Pow10(Len(frac))
                  IN  IF Len(whole) + Len(frac) = 0 THEN <<>>
                      ELSE <<(2 * p + q) \div (2 * q)>>

WordCountIssueRaised ==
    \E i \in 1..Len(wcIssues) : wcIssues[i] = "wordCountInsufficient"

\* C13: the declared string is parsed with the multiplier table (null and a
\* string the pattern does not match give 0), and the issue "word count
\* insufficient" is raised exactly when the parsed value D is positive and
\* totalWords < 0.5 * D; "100 wan" is 1000000, with which 400000 raises the
\* issue and 500000 does not.
C13_DeclaredWordCount ==
    wcPc = "done" =>
        LET D == DeclaredCount(wcStr)
        IN  /\ wcExpected = D
            /\ (D # <<>> /\ D[1] > 0) =>
                  (WordCountIssueRaised = (2 * wcTotalWords < D[1]))
            /\ (D = <<>> \/ D = <<0>>) => ~WordCountIssueRaised
            /\ wcStr = <<<<"1", "0", "0", "wan">>>> =>
                  /\ wcExpected = <<1000000>>
                  /\ wcTotalWords = 400000 => wcIssues = <<"wordCountInsufficient">>
                  /\ wcTotalWords = 500000 => wcIssues = <<>>

\* "100 wan" declared, 400000 words counted: the issue has been pushed
C13_Witness ==
    /\ wcPc = "done"
    /\ wcStr = <<<<"1", "0", "0", "wan">>>>
    /\ wcTotalWords = 400000
    /\ wcExpected = <<1000000>>
    /\ wcIssues = <<"wordCountInsufficient">>

\* C14: for a readable text of at least 1000 characters each of the three
\* checks (too few chapters, word count insufficient, possible truncation)
\* adds its entry whether or not the others did, in this order and once, and
\* valid holds exactly when there is no issue and at least 10 chapters.
C14_IndependentChecks ==
    ScriptedLongText =>
        LET emitted == EmittedChapters
            D       == DeclaredCount(bookInfo.wordCount)
            few     == Len(emitted) < 10
            short   == /\ D # <<>>
                       /\ D[1] > 0
                       /\ 2 * scriptCheck[1].stats[1].totalWords < D[1]
            cut     == /\ emitted # <<>>
                       /\ EndsMarked(emitted[Len(emitted)].content)
            issues  == scriptCheck[1].issues
        IN  /\ issues = (IF few THEN <<"tooFewChapters">> ELSE <<>>)
                        \o (IF short THEN <<"wordCountInsufficient">> ELSE <<>>)
                        \o (IF cut THEN <<"possiblyTruncated">> ELSE <<>>)
            /\ scriptCheck[1].valid = (issues = <<>> /\ Len(emitted) >= 10)

\* a text that fails all three checks has three issues
C14_Witness ==
    /\ ScriptedLongText
    /\ scriptCheck[1].issues
          = <<"tooFewChapters", "wordCountInsufficient", "possiblyTruncated">>
    /\ ~scriptCheck[1].valid

(***************************************************************************)
(* Properties of detectEncoding (SpecEnc)                                  *)
(***************************************************************************)
\* the first bytes of the buffer are the bytes of prefix
StartsWithBytes(b, prefix) ==
    /\ BufferLength(b) >= Len(prefix)
    /\ \A k \in 1..Len(prefix) : ByteAt(b, k - 1) = prefix[k]

\* C15: a buffer that starts with EF BB BF detects as utf-8, with FF FE as
\* utf-16le and with FE FF as utf-16be, whatever follows, and no window of it
\* has been scored.
C15_BomShortCircuit ==
    encPc = "done" =>
        /\ StartsWithBytes(buffer, <<\hEF, \hBB, \hBF>>) =>
              detectedEncoding = <<"utf-8">>
        /\ StartsWithBytes(buffer, <<\hFF, \hFE>>) =>
              detectedEncoding = <<"utf-16le">>
        /\ StartsWithBytes(buffer, <<\hFE, \hFF>>) =>
              detectedEncoding = <<"utf-16be">>
        /\ (\/ StartsWithBytes(buffer, <<\hEF, \hBB, \hBF>>)
            \/ StartsWithBytes(buffer, <<\hFF, \hFE>>)
            \/ StartsWithBytes(buffer, <<\hFE, \hFF>>)) =>
              /\ encI = 0
              /\ gbkScore = 0
              /\ utf8Score = 0

\* the UTF-8 byte order mark followed by a byte that makes three GBK pairs
C15_Witness ==
    /\ encPc = "done"
    /\ buffer = [pad |-> 0, rest |-> <<\hEF, \hBB, \hBF, \hB0>>]
    /\ detectedEncoding = <<"utf-8">>

HasBom(b) ==
    \/ StartsWithBytes(b, <<\hEF, \hBB, \hBF>>)
    \/ StartsWithBytes(b, <<\hFF, \hFE>>)
    \/ StartsWithBytes(b, <<\hFE, \hFF>>)

\* the 2-byte windows of the first min(length, 10000) bytes, by their first
\* index
SampleWindows(b) ==
    LET n == IF BufferLength(b) < 10000 THEN BufferLength(b) ELSE 10000
    IN  0..(n - 2)

GbkWindowCount(b) ==
    Cardinality({i \in SampleWindows(b) :
        LET lead == ByteAt(b, i)  trail == ByteAt(b, i + 1)
        IN  \/ lead \in \h81..\hFE /\ trail \in \h40..\hFE
            \/ lead \in \hA1..\hF7 /\ trail \in \hA1..\hFE})

Utf8WindowCount(b) ==
    Cardinality({i \in SampleWindows(b) : ByteAt(b, i) \in \hE4..\hE9})

\* C16: a buffer without a byte order mark always gets a result (the empty
\* and the 1-byte buffer too), which is gbk exactly when gbkScore > 1.5 *
\* utf8Score and null otherwise, the scores being the counts over the 2-byte
\* windows of the first min(length, 10000) bytes.
C16_GbkScoring ==
    /\ (encPc # "done" => ENABLED EncNext)
    /\ (encPc = "done" /\ ~HasBom(buffer)) =>
          /\ gbkScore = GbkWindowCount(buffer)
          /\ utf8Score = Utf8WindowCount(buffer)
          /\ detectedEncoding =
                IF 2 * GbkWindowCount(buffer) > 3 * Utf8WindowCount(buffer)
                THEN <<"gbk">> ELSE <<>>

\* three GBK pairs against two UTF-8 lead bytes: 3 is not more than 1.5 * 2
\* and the result is null
C16_Witness ==
    /\ encPc = "done"
    /\ buffer = [pad |-> 0, rest |-> <<\hB0, \hB0, \hE4, \hE4, \h20>>]
    /\ gbkScore = 3
    /\ utf8Score = 2
    /\ detectedEncoding = <<>>

(***************************************************************************)
(* Properties of splitChapters (SpecSeg)                                   *)
(***************************************************************************)
\* the boundary lines of a text, by their index
Boundaries(ls) == {i \in 1..Len(ls) : isChapterTitle(ls[i])}

\* the lines accumulated for the chapter opened at boundary b: up to the next
\* boundary line or the end of the text
AccumulatedLines(ls, b) ==
    LET later == {j \in Boundaries(ls) : j > b}
    IN  SubSeq(ls, b + 1, IF later = {} THEN Len(ls) ELSE SetMin(later) - 1)

\* what a record says about the content of its chapter
RecordOf(ls, b) ==
    LET content == Trim(JoinLines(AccumulatedLines(ls, b)))
    IN  [content |-> content,
         wordCount |-> Len(SelectSeq(content, LAMBDA c : c \notin {" ", "\n"})),
         lineCount |-> Len(AccumulatedLines(ls, b))]

\* the records of the boundaries in K, in the order of the text
RecordsOf(ls, K) ==
    [k \in 1..Cardinality(K) |->
        RecordOf(ls, CHOOSE b \in K : Cardinality({j \in K : j <= b}) = k)]

\* the emit rule: includeEmpty or a content of at least minChapterLength
MeetsEmitRule(ls, b, opts) ==
    \/ opts.includeEmpty
    \/ Len(Trim(JoinLines(AccumulatedLines(ls, b)))) >= opts.minChapterLength

ContentOfChapters ==
    [k \in 1..Len(chapters) |->
        [content |-> chapters[k].content,
         wordCount |-> chapters[k].wordCount,
         lineCount |-> chapters[k].lineCount]]

\* C17 as stated: the records are those of the chapters that meet the emit
\* rule, each with the content, the word count and the line count of its
\* accumulated lines.
C17_AsStated ==
    segPc = "done" =>
        ContentOfChapters
           = RecordsOf(lines, {b \in Boundaries(lines) :
                                  MeetsEmitRule(lines, b, segOpts)})

\* C17 amended: the records are those of the chapters that have accumulated
\* at least one line and meet the emit rule; a chapter without a line is
\* dropped even when includeEmpty is set.
C17_EmitDropRule ==
    segPc = "done" =>
        ContentOfChapters
           = RecordsOf(lines, {b \in Boundaries(lines) :
                                  /\ AccumulatedLines(lines, b) # <<>>
                                  /\ MeetsEmitRule(lines, b, segOpts)})

\* includeEmpty is set; two boundary lines follow one another and the second
\* chapter has one line: only the second chapter is a record
C17_Witness ==
    /\ segPc = "done"
    /\ segOpts.includeEmpty
    /\ Len(lines) = 3
    /\ Boundaries(lines) = {1, 2}
    /\ Len(chapters) = 1
    /\ chapters[1].lineCount = 1

(***************************************************************************)
(* Properties of saveNovelMeta (Spec)                                      *)
(***************************************************************************)
Saved == pc = "saved"

\* C18 as stated: the integrity record that was written has every field of
\* the verdict, unchanged: exists, valid, the script check with its issues
\* and stats, and the llmCheck or null.
C18_AsStated ==
    Saved =>
        LET integrity == meta[1].integrity
        IN  /\ DOMAIN integrity = DOMAIN verdict[1]
            /\ integrity.valid = verdict[1].valid
            /\ integrity.scriptCheck = verdict[1].scriptCheck
            /\ integrity.llmCheck = verdict[1].llmCheck

\* C18 amended: the integrity record holds valid, under scriptCheck the stats
\* of the script check alone ({} without a parsed novel) and under llmCheck
\* the confidence and the analysis alone, or null; exists, the validity and
\* the issues of the script check and the validity of the oracle's judgement
\* are not written.
C18_PersistedSummary ==
    Saved =>
        LET integrity == meta[1].integrity
        IN  /\ DOMAIN integrity = {"valid", "scriptCheck", "llmCheck"}
            /\ integrity.valid = verdict[1].valid
            /\ integrity.scriptCheck
                  = IF verdict[1].scriptCheck = <<>> THEN <<>>
                    ELSE verdict[1].scriptCheck[1].stats
            /\ (integrity.llmCheck = <<>>) = (verdict[1].llmCheck = <<>>)
            /\ integrity.llmCheck # <<>> =>
                  /\ DOMAIN integrity.llmCheck[1] = {"confidence", "analysis"}
                  /\ integrity.llmCheck[1].confidence
                        = verdict[1].llmCheck[1].confidence
                  /\ integrity.llmCheck[1].analysis
                        = verdict[1].llmCheck[1].analysis

\* a verdict with two issues and a judgement of the oracle has been saved:
\* the record holds the stats and the confidence
C18_Witness ==
    /\ Saved
    /\ verdict[1].scriptCheck # <<>>
    /\ Len(verdict[1].scriptCheck[1].issues) = 2
    /\ verdict[1].llmCheck # <<>>
    /\ meta[1].integrity.scriptCheck # <<>>
    /\ meta[1].integrity.llmCheck # <<>>
    /\ meta[1].integrity.llmCheck[1].confidence = 81

(***************************************************************************)
(* Termination of checkNovelIntegrity (FairSpec)                           *)
(***************************************************************************)
\* C19: every run returns a verdict and keeps it; after a failed oracle call
\* (error, unreachable, timeout of the client) the run returns the verdict of
\* the script check.
ReturnedScriptVerdict ==
    IF verdict = <<>> \/ scriptCheck = <<>>
    THEN FALSE
    ELSE verdict[1].valid = scriptCheck[1].valid

C19_Terminates ==
    /\ <>(verdict # <<>>)
    /\ [][verdict # <<>> => verdict' = verdict]_vars
    /\ (result = <<OracleFailure>>) ~> ReturnedScriptVerdict

\* the oracle call failed after a valid script check and the run has returned
C19_Witness ==
    /\ verdict # <<>>
    /\ oracleRequests = 1
    /\ result = <<OracleFailure>>
    /\ ReturnedScriptVerdict
    /\ verdict[1].valid

(***************************************************************************)
(* Range of the confidence in the returned verdict (Spec)                  *)
(***************************************************************************)
\* confidence in hundredths within [0, 1]
InUnitRange(llm) == llm.confidence \in 0..100

\* C20: in every returned verdict llmCheck is null or carries a confidence
\* within [0, 1], and a verdict rescued by the oracle carries a confidence
\* within [0, 1].
C20_ConfidenceRange ==
    verdict # <<>> =>
        \/ verdict[1].llmCheck = <<>>
        \/ InUnitRange(verdict[1].llmCheck[1])

(***************************************************************************)
(* Properties of isChapterTitle and parseChapterTitle (SpecTitle)          *)
(***************************************************************************)
SomePatternMatches(s) == \E k \in 1..PatternCount : PatternAt(k, s)

\* C21: a line whose trimmed length exceeds 60 is never a boundary, an empty
\* or white-space-only line is never a boundary, and every other line is a
\* boundary exactly when one of the seven patterns matches the trimmed line.
C21_BoundaryRule ==
    ttlIsTitle # <<>> =>
        LET t == Trim(ttlLine)
        IN  /\ Len(t) > MaxTitleLength => ~ttlIsTitle[1]
            /\ Len(t) = 0 => ~ttlIsTitle[1]
            /\ (Len(t) > 0 /\ Len(t) <= MaxTitleLength)
                  => (ttlIsTitle[1] <=> SomePatternMatches(t))
            /\ ttlIsTitle[1] = isChapterTitle(ttlLine)

\* a line of 61 characters that the standard pattern matches is rejected
C21_Witness ==
    /\ ttlIsTitle = <<FALSE>>
    /\ Len(ttlTrimmed) = MaxTitleLength + 1
    /\ PatternStandard(ttlTrimmed)

\* the numeral fragments of s: <<p, r>> when s[p] is U+7B2C, the r characters
\* after it are numerals and a chapter marker follows them
NumeralFragments(s) ==
    {f \in (1..Len(s)) \X (1..Len(s)) :
        /\ f[1] + f[2] + 1 <= Len(s)
        /\ s[f[1]] = "di"
        /\ \A i \in (f[1] + 1)..(f[1] + f[2]) : s[i] \in NumeralClass
        /\ s[f[1] + f[2] + 1] \in MarkerChapter}

\* the fragment a search finds: the leftmost one, with its whole numeral
FirstFragment(s) ==
    CHOOSE f \in NumeralFragments(s) :
        \A g \in NumeralFragments(s) :
            f[1] < g[1] \/ (f[1] = g[1] /\ f[2] >= g[2])

\* the digit runs s starts with
LeadingDigitRuns(s) ==
    {n \in 1..Len(s) : \A i \in 1..n : s[i] \in AsciiDigits}

ExpectedNumber(s) ==
    IF NumeralFragments(s) # {}
    THEN LET f == FirstFragment(s)
         IN  <<chineseToNumber(SubSeq(s, f[1] + 1, f[1] + f[2]))>>
    ELSE IF LeadingDigitRuns(s) # {}
    THEN <<DecimalValue(SubSeq(s, 1, SetMax(LeadingDigitRuns(s))))>>
    ELSE <<>>

IsBoundaryLine(line) ==
    /\ Len(Trim(line)) > 0
    /\ Len(Trim(line)) <= MaxTitleLength
    /\ SomePatternMatches(Trim(line))

\* C22: for a boundary line the number is the numeral parser's value of the
\* numeral of a fragment U+7B2C numeral [zhang jie hui] when the line holds
\* one, else the value of the digit run the line starts with, else null, and
\* title is the whole trimmed line; for any other line the result is null.
C22_NumberPrecedence ==
    ttlPc = "done" =>
        IF IsBoundaryLine(ttlLine)
        THEN /\ ttlRet # <<>>
             /\ ttlRet[1].title = Trim(ttlLine)
             /\ ttlRet[1].number = ExpectedNumber(Trim(ttlLine))
             /\ ttlRet = parseChapterTitle(ttlLine)
        ELSE /\ ttlRet = <<>>
             /\ parseChapterTitle(ttlLine) = <<>>

\* a line that starts with the digit 1 and holds the fragment of chapter 3
C22_Witness ==
    /\ ttlPc = "done"
    /\ ttlRet # <<>>
    /\ ttlRet[1].number = <<3>>
    /\ ttlRet[1].title[1] = "1"

(***************************************************************************)
(* Chapter numbers in splitChapters (SpecSeg)                              *)
(***************************************************************************)
\* the boundary lines among the first n lines
BoundariesUpTo(n) == {i \in 1..n : isChapterTitle(lines[i])}

\* the loop has just handled a boundary line
JustOpened ==
    /\ segPc = "loop"
    /\ lineIdx > 1
    /\ lineIdx - 1 <= Len(lines)
    /\ isChapterTitle(lines[lineIdx - 1])

\* C23: a chapter opened by a boundary line gets the numeral parsed from the
\* line whenever one is present, whatever its value, and otherwise the value
\* of the counter, which counts every boundary line met so far.
C23_NumberAssignment ==
    JustOpened =>
        LET info == parseChapterTitle(lines[lineIdx - 1])[1]
        IN  /\ chapterCount = Cardinality(BoundariesUpTo(lineIdx - 1))
            /\ currentChapter # <<>>
            /\ currentChapter[1].number =
                  IF info.number # <<>> THEN info.number[1] ELSE chapterCount

(***************************************************************************)
(* The lines of a chapter (SpecSeg)                                        *)
(***************************************************************************)
\* C24: the lines before the first boundary line are in no chapter; the
\* accumulator holds, unchanged, exactly the lines after the nearest boundary
\* line; the content of a record is made of the lines between its boundary
\* line and the next one, and of no boundary line.
C24_ContentFrame ==
    segPc \in {"loop", "split", "done"} =>
        LET n == lineIdx - 1
            B == BoundariesUpTo(n)
        IN  /\ B = {} => /\ currentChapter = <<>>
                         /\ currentContent = <<>>
                         /\ chapters = <<>>
            /\ B # {} => currentContent = SubSeq(lines, SetMax(B) + 1, n)
            /\ \A k \in 1..Len(chapters) :
                  \E b \in B :
                     LET acc == AccumulatedLines(lines, b)
                     IN  /\ chapters[k].title = Trim(lines[b])
                         /\ chapters[k].content = Trim(JoinLines(acc))
                         /\ chapters[k].lineCount = Len(acc)
                         /\ \A i \in 1..Len(acc) : ~isChapterTitle(acc[i])

\* a text with a line before its first boundary line and two lines after it
C24_Witness ==
    /\ segPc = "done"
    /\ Len(lines) = 4
    /\ Boundaries(lines) = {2}
    /\ lines[1] # <<>>
    /\ Len(chapters) = 1
    /\ chapters[1].lineCount = 2

(***************************************************************************)
(* The order of the records (SpecSeg)                                      *)
(***************************************************************************)
\* the ways to give every record a boundary line of its own, in text order
DiscoveryMaps ==
    {f \in [1..Len(chapters) -> Boundaries(lines)] :
        /\ \A j, k \in 1..Len(chapters) : j < k => f[j] < f[k]
        /\ \A k \in 1..Len(chapters) :
              /\ chapters[k].title = Trim(lines[f[k]])
              /\ chapters[k].content
                    = RecordOf(lines, f[k]).content}

\* C25: the records are in discovery order: each has a boundary line of its
\* own and a record that precedes another has the earlier boundary line,
\* whatever the chapter numbers; there are never more records than boundary
\* lines.
C25_DiscoveryOrder ==
    segPc \in {"loop", "split", "done"} =>
        /\ DiscoveryMaps # {}
        /\ Len(chapters) <= Cardinality(Boundaries(lines))

\* two records in the order of their boundary lines although their numbers do
\* not increase: the first has the value 1 of the counter, the second the
\* parsed numeral 1
C25_Witness ==
    /\ segPc = "done"
    /\ Len(chapters) = 2
    /\ chapters[1].title = <<"yi", "dun", "w">>
    /\ chapters[2].title = <<"di", "yi", "zhang">>
    /\ chapters[1].number >= chapters[2].number
    /\ chapters[1].content # chapters[2].content

(***************************************************************************)
(* The chapter files (SpecSeg)                                             *)
(***************************************************************************)
\* C26: no two records of a result carry the same number, and
\* saveChapterSplits, which names the file of a chapter by its number, leaves
\* exactly one file per record.
C26_UniqueNumbers ==
    /\ segPc \in {"done", "saved"} =>
          \A j, k \in 1..Len(chapters) :
              chapters[j].number = chapters[k].number => j = k
    /\ saveRet = <<TRUE>> => Cardinality(chapterFiles) = Len(chapters)

(***************************************************************************)
(* UTF-8 text in detectEncoding (SpecEnc)                                  *)
(***************************************************************************)
\* a continuation byte of UTF-8
Utf8Continuation(byte) == byte >= \h80 /\ byte <= \hBF

\* b holds nothing but 3-byte UTF-8 encodings of CJK characters, without a
\* byte-order mark
IsUtf8CjkText(b) ==
    /\ b.pad = 0
    /\ Len(b.rest) > 0
    /\ Len(b.rest) % 3 = 0
    /\ \A i \in 1..Len(b.rest) :
          IF i % 3 = 1 THEN Utf8Lead(b.rest[i])
          ELSE Utf8Continuation(b.rest[i])

\* C27: a buffer without a byte-order mark that holds only 3-byte UTF-8
\* encodings of CJK characters is never reported as gbk.
C27_Utf8NotGbk ==
    (encPc = "done" /\ IsUtf8CjkText(buffer)) => detectedEncoding # <<"gbk">>

(***************************************************************************)
(* The two implementations of checkIntegrityByScript (Spec)                *)
(***************************************************************************)
\* the checks that pushed an issue
FailingChecks(check) == {check.issues[i] : i \in 1..Len(check.issues)}

\* C28: for every file and declared word count the implementation of the
\* novel manager and the one that feeds checkNovelIntegrity return the same
\* valid flag and flag the same set of failing checks.
C28_SameScriptCheck ==
    pc = "scripted" =>
        LET other == classicCheckIntegrityByScript(file, bookInfo)
        IN  /\ scriptCheck[1].valid = other.valid
            /\ FailingChecks(scriptCheck[1]) = FailingChecks(other)

(***************************************************************************)
(* Deleting a workspace (SpecWorkspace)                                    *)
(***************************************************************************)
\* deleteWorkspace has just returned true for a workspace that existed
DeletedExisting ==
    /\ wsPc = "ready"
    /\ wsLast.op = "delete"
    /\ wsLast.ret = "true"
    /\ wsLast.existed

\* C29: after deleteWorkspace(seq) returned true for an existing workspace the
\* index has no entry for seq, and resolveBookId(seq), getMeta(seq) and
\* workspaceExists(seq) give null, null and false.
C29_DeletedIsAbsent ==
    DeletedExisting =>
        /\ wsLast.arg \notin DOMAIN readIndex.books
        /\ resolveBookId(wsLast.arg) = <<>>
        /\ getMeta(wsLast.arg) = <<>>
        /\ ~workspaceExists(wsLast.arg)

(***************************************************************************)
(* Sequence numbers of the novels (SpecNovelIndex)                         *)
(***************************************************************************)
\* no call is under way
NoCallRunning == \A p \in NovCallers : nvPc[p] = "ready"

\* C30: after any interleaving of createNovelDir, deleteNovel and
\* rebuildNovelIndex calls no two novels have the same seq, every novel has
\* its entry in the index, and nextSeq is greater than every seq of the index.
C30_UniqueSeq ==
    NoCallRunning =>
        /\ \A n, m \in nvDirs : n.seq = m.seq => n = m
        /\ \A n \in nvDirs :
              /\ n.seq \in DOMAIN readNovelIndex.novels
              /\ readNovelIndex.novels[n.seq].dirName = n.dirName
        /\ \A s \in DOMAIN readNovelIndex.novels : s < readNovelIndex.nextSeq

====
